---- MODULE Spec2Model ----
(***************************************************************************)
(* Sentence-boundary chunked reader of utils/novel_reader.py               *)
(* (class NovelReader) with its JSON reading-state cache.                  *)
(*                                                                         *)
(* A source file is modelled by its decoded characters; the UTF-8 width of *)
(* each character gives the byte offsets that f.seek() works on, so the    *)
(* difference between the character counts the reader adds to              *)
(* current_position and the byte offsets it seeks to is kept.              *)
(***************************************************************************)
EXTENDS Integers, Sequences, FiniteSets, TLC

VARIABLES file,     \* per path: the source file (existence, decoded text, st_mtime)
          cache,    \* content of .cache/novel_state_<md5(path)>.json
          ret,      \* what the last call returned or raised
          run,      \* history: non-overlap text handed out since a fresh init_file
          pc,       \* concurrent callers: position of each caller inside its call
          loc,      \* concurrent callers: local variables of each caller
          seen      \* concurrent callers: history of what the finished calls did

vars == <<file, cache, ret, run, pc, loc, seen>>

-----------------------------------------------------------------------------
(* Characters.  "LF" is the newline, Hanzi a CJK letter (3 bytes in UTF-8), *)
(* IdeoStop the ideographic full stop (3 bytes in UTF-8).                   *)

LF == "LF"
Hanzi == "U+4E16"
IdeoStop == "U+3002"

CjkTerminators == {IdeoStop}           \* [。！？；…]
AsciiTerminators == {".", "!", "?", ";"} \* [.!?;]
Newlines == {LF}                       \* [\n\r]
Whitespace == {" ", LF}                \* \s and str.strip()
WideChars == {Hanzi, IdeoStop}

Min(S) == CHOOSE x \in S : \A y \in S : x <= y

MinOf(a, b) == IF a <= b THEN a ELSE b

MaxOf(a, b) == IF a >= b THEN a ELSE b

Rep(c, n) == [i \in 1..n |-> c]

Take(s, n) == SubSeq(s, 1, MinOf(MaxOf(n, 0), Len(s)))

Drop(s, n) == SubSeq(s, MinOf(MaxOf(n, 0), Len(s)) + 1, Len(s))

\* len(text[:k].encode("utf-8")): ASCII characters take 1 byte, CJK ones 3.
EncodedLen(text, k) ==
    k + 2 * Cardinality({j \in 1..k : text[j] \in WideChars})

\* os.path.getsize(file_path)
FileSize(f) == EncodedLen(f, Len(f))

\* str.strip()
Strip(s) ==
    LET n == Len(s)
        lead == {i \in 1..n : s[i] \notin Whitespace}
        trail == {j \in 1..n : s[n + 1 - j] \notin Whitespace}
    IN  IF lead = {} THEN << >> ELSE SubSeq(s, Min(lead), n + 1 - Min(trail))

-----------------------------------------------------------------------------
(* Text-mode file access: f.seek(pos) takes a byte offset, f.read(n) returns *)
(* up to n decoded characters.                                               *)

\* Number of characters that precede byte offset pos, or -1 when pos falls
\* inside the encoding of a character (the decoder then meets a continuation
\* byte and raises UnicodeDecodeError).
SeekIndex(f, pos) ==
    IF pos >= FileSize(f) THEN Len(f)
    ELSE LET K == {k \in ((pos + 2) \div 3)..MinOf(pos, Len(f)) :
                      EncodedLen(f, k) = pos}
         IN  IF K = {} THEN -1 ELSE Min(K)

\* f.read(n) once f.seek() has reached character index k (or failed, k < 0)
ReadFrom(f, k, n) ==
    IF k < 0 THEN [ok |-> FALSE, text |-> << >>]
    ELSE [ok |-> TRUE, text |-> SubSeq(f, k + 1, MinOf(k + n, Len(f)))]

\* f.seek(pos); f.read(n)
ReadAt(f, pos, n) == ReadFrom(f, SeekIndex(f, pos), n)

-----------------------------------------------------------------------------
(* _split_into_sentences: re.split on                                        *)
(*   [。！？；…]+ | [.!?;]+\s* | [\n\r]+                                      *)
(* then each text piece is glued to the delimiter that follows it, stripped, *)
(* and empty results are dropped.                                            *)

\* Whitespace at position i is swallowed by the \s* of the second alternative:
\* an ASCII terminator precedes it with only whitespace in between.
Attached(t, i) ==
    \E j \in 1..(i - 1) :
        /\ t[j] \in AsciiTerminators
        /\ \A k \in (j + 1)..i : t[k] \in Whitespace

\* Which alternative of sentence_pattern covers position i (0: none).
DelimKind(t, i) ==
    IF t[i] \in CjkTerminators THEN 1
    ELSE IF t[i] \in AsciiTerminators THEN 2
    ELSE IF t[i] \in Whitespace /\ Attached(t, i) THEN 2
    ELSE IF t[i] \in Newlines THEN 3
    ELSE 0

\* Last positions of the matches of sentence_pattern, leftmost-first, greedy.
MatchEnds(t) ==
    {i \in 1..Len(t) :
        /\ DelimKind(t, i) # 0
        /\ \/ i = Len(t)
           \/ DelimKind(t, i + 1) # DelimKind(t, i)
           \/ t[i] \in Whitespace /\ t[i + 1] \in AsciiTerminators}

SortedSeq(S) ==
    [k \in 1..Cardinality(S) |->
        CHOOSE e \in S : Cardinality({x \in S : x <= e}) = k]

NonEmpty(s) == s # << >>

\* The text piece that ends with the k-th match (or, past the last match,
\* the remainder of the text), stripped.
Piece(t, ends, k) ==
    Strip(SubSeq(t, IF k = 1 THEN 1 ELSE ends[k - 1] + 1,
                    IF k <= Len(ends) THEN ends[k] ELSE Len(t)))

\* The stripped, non-empty pieces of t, given the ends of the matches.
Pieces(t, ends) ==
    SelectSeq([k \in 1..(Len(ends) + 1) |-> Piece(t, ends, k)], NonEmpty)

SplitIntoSentences(t) ==
    IF t = << >> THEN << >> ELSE Pieces(t, SortedSeq(MatchEnds(t)))

RECURSIVE JoinLen(_, _)
\* len("".join(sentences[:k]))
JoinLen(ss, k) == IF k = 0 THEN 0 ELSE JoinLen(ss, k - 1) + Len(ss[k])

RECURSIVE Join(_)
\* "".join(sentences)
Join(ss) == IF ss = << >> THEN << >> ELSE Head(ss) \o Join(Tail(ss))

\* A variant of the loop that returns the last sentence end that does not
\* exceed the target (the first sentence end when every one exceeds it).
BoundaryIn_NotExceeding(t, sentences, target_position) ==
    LET hits == {k \in 1..Len(sentences) :
                    JoinLen(sentences, k) <= target_position}
    IN  IF sentences = << >> THEN MinOf(target_position, Len(t))
        ELSE IF hits = {} THEN JoinLen(sentences, 1)
        ELSE JoinLen(sentences, CHOOSE k \in hits : \A j \in hits : j <= k)

\* _find_sentence_boundary, the loop over the sentences
BoundaryIn(t, sentences, target_position) ==
    LET hits == {k \in 1..Len(sentences) :
                    JoinLen(sentences, k) >= target_position}
    IN  IF sentences = << >> THEN MinOf(target_position, Len(t))
        ELSE IF hits = {} THEN Len(t)
        ELSE JoinLen(sentences, Min(hits))

\* _find_sentence_boundary
FindSentenceBoundary(t, target_position) ==
    IF target_position >= Len(t) THEN Len(t)
    ELSE BoundaryIn(t, SplitIntoSentences(t), target_position)

-----------------------------------------------------------------------------
(* Reading state and its cache file.  last_read_time (a wall-clock stamp    *)
(* that nothing reads back) is left out of the record.                     *)

None == << >>

Some(x) == <<x>>

ExtraBuffer == 200      \* buffer_size = state.chunk_size + 200
LookBack == 300         \* f.seek(max(0, current_position - 300)); f.read(300)
JsonOverhead == 214     \* bytes of the dumped record other than its three numbers

NoCache == [exists |-> FALSE, len |-> 0, data |-> None]

TruncatedCache == [exists |-> TRUE, len |-> 0, data |-> None]

\* os.path.exists(file_path)
SourceExists(fl) == fl.exists

\* hashlib.md5(file_path.encode()).hexdigest(), for the paths the callers use
Md5Hex(file_path) ==
    CASE file_path = "novel.txt" -> "8743b94aa4605159ea7b737312bb5527"
      [] file_path = "other.txt" -> "8b15c0404e301d2ad766e86e4f4e1ffd"

CacheDir == ".cache"

\* A variant of _get_cache_file_path that names the cache file without the
\* hash of the path.
GetCacheFilePath_OneFile(file_path) ==
    CacheDir \o "/novel_state_" \o ".json"

\* _get_cache_file_path
GetCacheFilePath(file_path) ==
    CacheDir \o "/novel_state_" \o Md5Hex(file_path) \o ".json"

\* _get_file_hash: md5 of "<st_size>_<st_mtime>", "" when os.stat fails
GetFileHash(fl) == IF fl.exists THEN <<FileSize(fl.text), fl.mtime>> ELSE << >>

\* _get_file_encoding: the first candidate that decodes the first 100
\* characters; every source of the model is valid UTF-8.
GetFileEncoding(fl) == "utf-8"

Digits(n) == IF n < 10 THEN 1 ELSE IF n < 100 THEN 2 ELSE IF n < 1000 THEN 3 ELSE 4

\* Length of json.dump(state.to_dict(), f, ensure_ascii=False, indent=2)
JsonLen(state) ==
    JsonOverhead + Digits(state.current_position) + Digits(state.total_size)
                 + Digits(state.chunk_size)

\* A variant of the change check that takes the new fingerprint but keeps
\* the position.
CheckChanged_KeepsPosition(state, current_hash) ==
    IF current_hash # << >> /\ state.file_hash # current_hash
    THEN Some([state EXCEPT !.file_hash = current_hash])
    ELSE Some(state)

\* _load_state, the change check on the state read from the cache file
CheckChanged(state, current_hash) ==
    IF current_hash # << >> /\ state.file_hash # current_hash
    THEN Some([state EXCEPT !.current_position = 0, !.file_hash = current_hash])
    ELSE Some(state)

\* _load_state
LoadState(c, fl) ==
    IF ~c.exists THEN None
    ELSE IF c.data = None THEN None          \* json.load raises: except -> None
    ELSE CheckChanged(c.data[1], GetFileHash(fl))

\* _save_state; disk says how the write goes: "ok", "open_fails" (open(...,'w')
\* raises, the file is untouched) or "write_fails" (the file was truncated by
\* open and the dump did not reach it).  Both failures are caught and printed.
SaveState(c, state, disk) ==
    IF disk = "ok" THEN [exists |-> TRUE, len |-> JsonLen(state), data |-> Some(state)]
    ELSE IF disk = "open_fails" THEN c
    ELSE TruncatedCache

-----------------------------------------------------------------------------
(* Results of calls.                                                         *)

NoInfo == [current_position |-> 0]

NoCall ==
    [op |-> "none", path |-> "", kind |-> "none", exc |-> "", cause |-> "",
     text |-> << >>,
     is_end |-> FALSE, info |-> NoInfo, value |-> None, save |-> "none",
     start |-> 0, chunk |-> << >>, lookahead |-> 0]

Raised(op, path, exc, cause) ==
    [NoCall EXCEPT !.op = op, !.path = path, !.kind = "raised", !.exc = exc,
                   !.cause = cause]

Returned(op, path, value, save) ==
    [NoCall EXCEPT !.op = op, !.path = path, !.kind = "returned",
                   !.value = value, !.save = save]

\* (current_position / total_size) * 100, kept as an exact fraction
Progress(position, total_size) ==
    IF total_size > 0 THEN [num |-> position * 100, den |-> total_size]
    ELSE [num |-> 100, den |-> 1]

\* A variant of init_file that builds a new state whatever _load_state
\* returned.
InitState_Restarts(fl, loaded, chunk_size) ==
    [current_position |-> 0,
     total_size |-> FileSize(fl.text),
     chunk_size |-> chunk_size,
     encoding |-> GetFileEncoding(fl),
     file_hash |-> GetFileHash(fl)]

\* init_file: the state it builds from what _load_state returned
InitState(fl, loaded, chunk_size) ==
    IF loaded = None
    THEN [current_position |-> 0,
          total_size |-> FileSize(fl.text),
          chunk_size |-> chunk_size,
          encoding |-> GetFileEncoding(fl),
          file_hash |-> GetFileHash(fl)]
    ELSE [loaded[1] EXCEPT !.chunk_size = chunk_size,
                           !.total_size = FileSize(fl.text),
                           !.encoding = GetFileEncoding(fl),
                           !.file_hash = GetFileHash(fl)]

\* init_file from the state it built: save it and return it
SaveAndReturn(path, c, state, disk) ==
    [ret |-> Returned("init_file", path, Some(state), disk),
     cache |-> SaveState(c, state, disk)]

\* A variant of init_file that writes the record of a source before it
\* checks that the source exists.
InitFileCall_SavesFirst(path, fl, c, chunk_size, disk) ==
    IF ~SourceExists(fl)
    THEN [ret |-> Raised("init_file", path, "FileNotFoundError", ""),
          cache |-> SaveState(c, InitState(fl, LoadState(c, fl), chunk_size), disk)]
    ELSE SaveAndReturn(path, c, InitState(fl, LoadState(c, fl), chunk_size), disk)

\* init_file
InitFileCall(path, fl, c, chunk_size, disk) ==
    IF ~SourceExists(fl)
    THEN [ret |-> Raised("init_file", path, "FileNotFoundError", ""), cache |-> c]
    ELSE SaveAndReturn(path, c, InitState(fl, LoadState(c, fl), chunk_size), disk)

\* A variant of the empty-lookahead return that derives is_end from the
\* stored total_size, as the non-empty branch does.
EndOfFile_ComparesTotal(path, state) ==
    [NoCall EXCEPT !.op = "read_next_chunk", !.path = path, !.kind = "returned",
                   !.text = << >>,
                   !.is_end = (state.current_position >= state.total_size),
                   !.start = state.current_position,
                   !.info = [current_position |-> state.current_position,
                             total_size |-> state.total_size,
                             progress |-> [num |-> 100, den |-> 1],
                             chunk_size |-> 0]]

\* read_next_chunk, the return of the empty-lookahead branch
EndOfFile(path, state) ==
    [NoCall EXCEPT !.op = "read_next_chunk", !.path = path, !.kind = "returned",
                   !.text = << >>, !.is_end = TRUE, !.start = state.current_position,
                   !.info = [current_position |-> state.current_position,
                             total_size |-> state.total_size,
                             progress |-> [num |-> 100, den |-> 1],
                             chunk_size |-> 0]]

\* A variant that assigns the boundary instead of adding it.
Advance_Assigns(state, boundary_pos) ==
    [state EXCEPT !.current_position = boundary_pos]

\* read_next_chunk: state.current_position += boundary_pos
Advance(state, boundary_pos) ==
    [state EXCEPT !.current_position = state.current_position + boundary_pos]

\* read_next_chunk: boundary of the chunk inside the lookahead buffer
BoundaryPos(raw_text, buffer_size, chunk_size) ==
    IF Len(raw_text) = buffer_size
    THEN FindSentenceBoundary(raw_text, chunk_size)
    ELSE Len(raw_text)

\* read_next_chunk: "".join(previous_sentences[-overlap_sentences:]) when
\* there are more than overlap_sentences of them
LastSentences(previous_sentences, overlap_sentences) ==
    IF Len(previous_sentences) > overlap_sentences
    THEN Join(SubSeq(previous_sentences,
                     Len(previous_sentences) - overlap_sentences + 1,
                     Len(previous_sentences)))
    ELSE << >>

\* read_next_chunk: the overlap taken from the text re-read before
\* current_position
OverlapText(previous_text, overlap_sentences) ==
    LastSentences(SplitIntoSentences(previous_text), overlap_sentences)

\* read_next_chunk, from the final text to the return
Compose(path, state, advanced, chunk_text, overlap_text, final_text, lookahead) ==
    [ret |-> [NoCall EXCEPT
                !.op = "read_next_chunk", !.path = path, !.kind = "returned",
                !.text = final_text,
                !.is_end = (advanced.current_position >= advanced.total_size),
                !.info = [current_position |-> advanced.current_position,
                          total_size |-> advanced.total_size,
                          progress |-> Progress(advanced.current_position,
                                                advanced.total_size),
                          chunk_size |-> Len(final_text),
                          has_overlap |-> (Len(overlap_text) > 0),
                          overlap_size |-> Len(overlap_text)],
                !.start = state.current_position,
                !.chunk = chunk_text,
                !.lookahead = lookahead],
     write |-> Some(advanced)]

\* read_next_chunk, once the chunk and the overlap are known
WithOverlap(path, state, boundary_pos, chunk_text, overlap_text, lookahead) ==
    Compose(path, state, Advance(state, boundary_pos), chunk_text, overlap_text,
            Strip(overlap_text \o chunk_text), lookahead)

\* read_next_chunk, once the boundary is known; previous is the text re-read
\* before current_position
WithBoundary(path, state, overlap_sentences, raw_text, boundary_pos, previous) ==
    IF ~previous.ok
    THEN [ret |-> Raised("read_next_chunk", path, "RuntimeError", "UnicodeDecodeError"),
          write |-> None]
    ELSE WithOverlap(path, state, boundary_pos, Take(raw_text, boundary_pos),
                     IF state.current_position > 0 /\ overlap_sentences > 0
                     THEN OverlapText(previous.text, overlap_sentences)
                     ELSE << >>,
                     Len(raw_text))

\* read_next_chunk: f.seek(max(0, current_position - 300)); f.read(300), made
\* only when current_position > 0 and overlap_sentences > 0
ReadPrevious(fl, state, overlap_sentences) ==
    IF state.current_position > 0 /\ overlap_sentences > 0
    THEN ReadAt(fl.text, MaxOf(0, state.current_position - LookBack), LookBack)
    ELSE [ok |-> TRUE, text |-> << >>]

\* read_next_chunk, once the lookahead has been read
WithLookahead(path, fl, state, overlap_sentences, raw) ==
    IF ~raw.ok
    THEN [ret |-> Raised("read_next_chunk", path, "RuntimeError", "UnicodeDecodeError"),
          write |-> None]
    ELSE IF raw.text = << >>
    THEN [ret |-> EndOfFile(path, state), write |-> None]
    ELSE WithBoundary(path, state, overlap_sentences, raw.text,
                      BoundaryPos(raw.text, state.chunk_size + ExtraBuffer,
                                  state.chunk_size),
                      ReadPrevious(fl, state, overlap_sentences))

\* read_next_chunk, the try block: what it returns or raises for the loaded
\* state, and the state it hands to _save_state (None when it saves nothing)
ReadCompute(path, fl, state, overlap_sentences) ==
    IF ~fl.exists           \* open() raises inside the try block
    THEN [ret |-> Raised("read_next_chunk", path, "RuntimeError", "FileNotFoundError"),
          write |-> None]
    ELSE WithLookahead(path, fl, state, overlap_sentences,
                       ReadAt(fl.text, state.current_position,
                              state.chunk_size + ExtraBuffer))

\* read_next_chunk, from the outcome of the try block: save and return
SaveComputed(c, out, disk) ==
    IF out.write = None
    THEN [ret |-> out.ret, cache |-> c]
    ELSE [ret |-> [out.ret EXCEPT !.save = disk],
          cache |-> SaveState(c, out.write[1], disk)]

\* A variant of read_next_chunk that builds the state of a source that has
\* none, as init_file does with its default chunk size, and reads on.
ReadLoaded_LazyInit(path, fl, c, loaded, overlap_sentences, disk) ==
    IF loaded = None
    THEN SaveComputed(c, ReadCompute(path, fl, InitState(fl, None, 500),
                                     overlap_sentences), disk)
    ELSE SaveComputed(c, ReadCompute(path, fl, loaded[1], overlap_sentences), disk)

\* read_next_chunk, from what _load_state returned
ReadLoaded(path, fl, c, loaded, overlap_sentences, disk) ==
    IF loaded = None
    THEN [ret |-> Raised("read_next_chunk", path, "ValueError", ""), cache |-> c]
    ELSE SaveComputed(c, ReadCompute(path, fl, loaded[1], overlap_sentences), disk)

\* read_next_chunk
ReadNextChunkCall(path, fl, c, overlap_sentences, disk) ==
    ReadLoaded(path, fl, c, LoadState(c, fl), overlap_sentences, disk)

\* reset_position / set_position, from what _load_state returned
MoveLoaded(op, path, c, loaded, position, disk) ==
    IF loaded # None
    THEN [ret |-> Returned(op, path, Some(TRUE), disk),
          cache |-> SaveState(c, [loaded[1] EXCEPT !.current_position = position],
                              disk)]
    ELSE [ret |-> Returned(op, path, Some(FALSE), "none"), cache |-> c]

\* reset_position
ResetPositionCall(path, fl, c, disk) ==
    MoveLoaded("reset_position", path, c, LoadState(c, fl), 0, disk)

\* max(0, min(position, state.total_size))
Clamp(position, loaded) ==
    IF loaded = None THEN 0 ELSE MaxOf(0, MinOf(position, loaded[1].total_size))

\* set_position, from what _load_state returned
SetLoaded(path, c, loaded, position, disk) ==
    MoveLoaded("set_position", path, c, loaded, Clamp(position, loaded), disk)

\* set_position
SetPositionCall(path, fl, c, position, disk) ==
    SetLoaded(path, c, LoadState(c, fl), position, disk)

-----------------------------------------------------------------------------
(* Sources and inputs of the model.                                          *)

LongRun == 250      \* length of the long unpunctuated run of FSpaced
SentLen == 100      \* length of each sentence of FDense
MaxMtime == 1       \* how many times a source file is rewritten

\* "ab. cd."
FShort == <<"a", "b", ".", " ", "c", "d", ".">>

\* "世ab"
FWide == <<Hanzi, "a", "b">>

\* "ab. cdef. xxx...x. yy."
FSpaced ==
    <<"a", "b", ".", " ", "c", "d", "x", "y", ".", " ">> \o Rep("x", LongRun)
        \o <<".", " ", "y", "y", ".">>

\* three sentences of SentLen letters and a full stop, no whitespace
FDense ==
    Rep("a", SentLen) \o <<".">> \o Rep("b", SentLen) \o <<".">>
        \o Rep("c", SentLen) \o <<".">>

FEmpty == << >>

Sources == {FShort, FWide, FSpaced, FDense, FEmpty}

Paths == {"novel.txt"}
ChunkSizes == {5, 100}
OverlapCounts == {0, 1}
Positions == {-1, 3, 1000}
DiskOutcomes == {"ok", "open_fails", "write_fails"}

-----------------------------------------------------------------------------
(* Sequential callers: each call runs to completion.                         *)

NotFresh == [fresh |-> FALSE, acc |-> << >>]

\* The text of a result without its overlap prefix.
SansOverlap(r) ==
    IF r.text = << >> THEN << >> ELSE Drop(r.text, r.info.overlap_size)

\* A call on p ends: its effect on the cache file and its result are out.
Commit(p, out, history) ==
    /\ cache' = [cache EXCEPT ![GetCacheFilePath(p)] = out.cache]
    /\ ret' = out.ret
    /\ run' = [run EXCEPT ![p] = history]
    /\ UNCHANGED <<file, pc, loc, seen>>

AfterInit(out) ==
    IF /\ out.ret.kind = "returned"
       /\ out.ret.save = "ok"
       /\ out.ret.value[1].current_position = 0
    THEN [fresh |-> TRUE, acc |-> << >>]
    ELSE NotFresh

AfterRead(history, out) ==
    IF ~history.fresh THEN NotFresh
    ELSE IF out.ret.kind = "raised" THEN history
    ELSE IF out.ret.save \in {"ok", "none"}
    THEN [fresh |-> TRUE, acc |-> history.acc \o SansOverlap(out.ret)]
    ELSE NotFresh

CommitInit(p, out) == Commit(p, out, AfterInit(out))

CommitRead(p, out) == Commit(p, out, AfterRead(run[p], out))

InitFile(p, chunk_size, disk) ==
    CommitInit(p, InitFileCall(p, file[p], cache[GetCacheFilePath(p)], chunk_size, disk))

ReadNextChunk(p, overlap_sentences, disk) ==
    CommitRead(p, ReadNextChunkCall(p, file[p], cache[GetCacheFilePath(p)],
                                    overlap_sentences, disk))

ResetPosition(p, disk) ==
    Commit(p, ResetPositionCall(p, file[p], cache[GetCacheFilePath(p)], disk), NotFresh)

SetPosition(p, position, disk) ==
    Commit(p, SetPositionCall(p, file[p], cache[GetCacheFilePath(p)], position, disk),
           NotFresh)

\* The environment rewrites the source file (new content, new st_mtime).
ReplaceFile(p, content) ==
    /\ file[p].mtime < MaxMtime
    /\ file' = [file EXCEPT ![p] = [exists |-> TRUE, text |-> content,
                                    mtime |-> file[p].mtime + 1]]
    /\ ret' = NoCall
    /\ run' = [run EXCEPT ![p] = NotFresh]
    /\ UNCHANGED <<cache, pc, loc, seen>>

\* The environment removes the source file.
DeleteFile(p) ==
    /\ file[p].exists
    /\ file' = [file EXCEPT ![p] = [exists |-> FALSE, text |-> << >>,
                                    mtime |-> file[p].mtime]]
    /\ ret' = NoCall
    /\ run' = [run EXCEPT ![p] = NotFresh]
    /\ UNCHANGED <<cache, pc, loc, seen>>

Init ==
    /\ file \in [Paths -> {[exists |-> TRUE, text |-> t, mtime |-> 0] : t \in Sources}]
    /\ cache = [k \in {GetCacheFilePath(p) : p \in Paths} |-> NoCache]
    /\ ret = NoCall
    /\ run = [p \in Paths |-> NotFresh]
    /\ pc = << >>
    /\ loc = << >>
    /\ seen = << >>

Next ==
    \/ \E p \in Paths, cs \in ChunkSizes, d \in DiskOutcomes : InitFile(p, cs, d)
    \/ \E p \in Paths, ov \in OverlapCounts, d \in DiskOutcomes : ReadNextChunk(p, ov, d)
    \/ \E p \in Paths, d \in DiskOutcomes : ResetPosition(p, d)
    \/ \E p \in Paths, n \in Positions, d \in DiskOutcomes : SetPosition(p, n, d)
    \/ \E p \in Paths, t \in Sources : ReplaceFile(p, t)
    \/ \E p \in Paths : DeleteFile(p)

Spec == Init /\ [][Next]_vars

-----------------------------------------------------------------------------
(* Properties of the sequential reader.                                      *)

Persisted(p) == cache[GetCacheFilePath(p)].data[1]

HasRecord(p) == cache[GetCacheFilePath(p)].data # None

IsRead(r) == r.op = "read_next_chunk" /\ r.kind = "returned"

\* The fingerprint of the source is the one stored with the reading state.
SourceUnchanged(p) ==
    HasRecord(p) /\ GetFileHash(file[p]) = Persisted(p).file_hash

\* The step is a call of op on p: every call leaves its result in ret and the
\* steps of the environment clear ret.
CallStep(op, p) == ret'.op = op /\ ret'.path = p /\ file' = file

IsInk(c) == c \notin Whitespace

Ink(s) == SelectSeq(s, IsInk)

IsPrefix(s, t) == Len(s) <= Len(t) /\ s = SubSeq(t, 1, Len(s))

\* C1: whatever calls were made and however the source file was replaced,
\* a persisted reading state has 0 <= current_position <= total_size.
C1_PositionWithinTotalSize ==
    \A p \in Paths :
        HasRecord(p) =>
            /\ 0 <= Persisted(p).current_position
            /\ Persisted(p).current_position <= Persisted(p).total_size

\* C2: a read_next_chunk call on a source whose fingerprint has not changed
\* never leaves a persisted offset smaller than the one it found.
C2_OffsetNonDecreasing ==
    [][\A p \in Paths :
          (CallStep("read_next_chunk", p) /\ SourceUnchanged(p)
                                          /\ cache'[GetCacheFilePath(p)].data # None)
              => cache'[GetCacheFilePath(p)].data[1].current_position
                     >= Persisted(p).current_position]_vars

C2_Witness ==
    /\ IsRead(ret)
    /\ ret.start > 0
    /\ ret.save = "ok"
    /\ HasRecord(ret.path)
    /\ Persisted(ret.path).current_position > ret.start

\* C3: on a freshly initialised, unchanging source the texts returned so far,
\* without their overlap prefixes, put end to end are a prefix of the file
\* (nothing twice, nothing skipped), and the whole file once a call has
\* signalled the end; compared up to the whitespace strip() removes.
C3_ChunksReproduceFile ==
    \A p \in Paths :
        run[p].fresh =>
            /\ IsPrefix(Ink(run[p].acc), Ink(file[p].text))
            /\ (IsRead(ret) /\ ret.path = p /\ ret.is_end)
                   => Ink(run[p].acc) = Ink(file[p].text)

\* The consumed text stops right after a terminator (and the whitespace or
\* line break that follows it), not inside a sentence.
EndsAtBoundary(chunk) ==
    LET n == Len(chunk)
        trail == {j \in 1..n : chunk[n + 1 - j] \notin Whitespace}
        last == n + 1 - Min(trail)
    IN  \/ trail = {}
        \/ chunk[last] \in CjkTerminators \cup AsciiTerminators
        \/ \E j \in (last + 1)..n : chunk[j] \in Newlines

\* The call consumed everything from its start offset to the end of the file.
ConsumedRemainder(r) ==
    SeekIndex(file[r.path].text, r.start) + Len(r.chunk) = Len(file[r.path].text)

\* C4: the non-overlap part of a returned chunk does not end inside a
\* sentence unless it consumes the remainder of the file.
C4_ChunkEndsOnSentenceBoundary ==
    (IsRead(ret) /\ ret.lookahead > 0)
        => (EndsAtBoundary(ret.chunk) \/ ConsumedRemainder(ret))

\* C5: a successful read_next_chunk persists an offset that is its start
\* offset plus the UTF-8 byte length of the non-overlap text it consumed.
C5_AdvanceIsByteLength ==
    (IsRead(ret) /\ ret.lookahead > 0 /\ ret.save = "ok")
        => /\ HasRecord(ret.path)
           /\ Persisted(ret.path).current_position
                  = ret.start + EncodedLen(ret.chunk, Len(ret.chunk))

\* The lookahead read of a read_next_chunk call on p returns no character.
LookaheadEmpty(p) ==
    LET loaded == LoadState(cache[GetCacheFilePath(p)], file[p])
    IN  /\ loaded # None
        /\ file[p].exists
        /\ ReadAt(file[p].text, loaded[1].current_position,
                  loaded[1].chunk_size + ExtraBuffer) = [ok |-> TRUE, text |-> << >>]

\* C7: with an empty lookahead read_next_chunk returns ("", True, stats of the
\* loaded state), raises nothing and leaves the cache file as it was, so the
\* same call made again returns the same result.
C7_EndOfFileIdempotent ==
    [][\A p \in Paths :
          (CallStep("read_next_chunk", p) /\ LookaheadEmpty(p))
              => /\ ret'.kind = "returned"
                 /\ ret'.text = << >>
                 /\ ret'.is_end
                 /\ ret'.info.chunk_size = 0
                 /\ ret'.info.total_size = LoadState(cache[GetCacheFilePath(p)], file[p])[1].total_size
                 /\ cache' = cache
                 /\ \A ov \in OverlapCounts, d \in DiskOutcomes :
                        ReadNextChunkCall(p, file'[p], cache'[GetCacheFilePath(p)], ov, d)
                            = [ret |-> ret', cache |-> cache'[GetCacheFilePath(p)]]]_vars

C7_Witness ==
    /\ IsRead(ret)
    /\ ret.lookahead = 0
    /\ ret.is_end
    /\ ret.text = << >>
    /\ ret.start > 0

\* C8: init_file and read_next_chunk on a missing source file raise and leave
\* the cache file of that source exactly as it was.
C8_MissingSourceRaises ==
    [][\A p \in Paths :
          (~file[p].exists /\ (CallStep("init_file", p)
                                   \/ CallStep("read_next_chunk", p)))
              => /\ ret'.kind = "raised"
                 /\ cache' = cache]_vars

C8_Witness ==
    /\ ret.kind = "raised"
    /\ ret.op = "read_next_chunk"
    /\ ret.cause = "FileNotFoundError"
    /\ ~file[ret.path].exists
    /\ HasRecord(ret.path)
    /\ Persisted(ret.path).current_position > 0

\* C9: a call whose write of the cache file failed does not return normally.
C9_PersistenceFailureSurfaced ==
    ret.save \in {"open_fails", "write_fails"} => ret.kind = "raised"

-----------------------------------------------------------------------------
(* Concurrent callers on one source.  A call is a sequence of steps:        *)
(* _load_state, the computation on the loaded state, and the two file       *)
(* operations of _save_state: open(cache_file, 'w'), which truncates the    *)
(* cache file, and the dump written when the with block closes the file.    *)
(* Each caller writes through its own descriptor from offset 0, so a dump   *)
(* shorter than what the file holds by then leaves the old tail behind it.  *)

MaxCalls == 2       \* calls made by each concurrent caller

Callers == {1, 2}

SharedPath == "novel.txt"

ConcurrentSources == {FSpaced, FDense}

Idle == [op |-> "", path |-> "", chunk_size |-> 0, overlap |-> 0,
         position |-> 0, loaded |-> None, write |-> None]

Finish(c) ==
    /\ pc' = [pc EXCEPT ![c] = "idle"]
    /\ loc' = [loc EXCEPT ![c] = Idle]

\* First step of init_file, read_next_chunk, reset_position or set_position:
\* state = self._load_state(file_path)
CLoad(c, p, op, chunk_size, overlap_sentences, position) ==
    LET loaded == LoadState(cache[GetCacheFilePath(p)], file[p])
    IN  /\ pc[c] = "idle"
        /\ seen.calls[c] < MaxCalls
        /\ IF loaded = None /\ op # "init_file"
           THEN /\ Finish(c)            \* raise ValueError, or return False
                /\ seen' = [seen EXCEPT !.calls[c] = @ + 1, !.uninit = TRUE]
           ELSE /\ pc' = [pc EXCEPT ![c] = "loaded"]
                /\ loc' = [loc EXCEPT ![c] =
                             [op |-> op, path |-> p, chunk_size |-> chunk_size,
                              overlap |-> overlap_sentences,
                              position |-> position, loaded |-> loaded,
                              write |-> None]]
                /\ seen' = [seen EXCEPT !.uninit = @ \/ (loaded = None)]
        /\ UNCHANGED <<file, cache, ret, run>>

\* The computation between _load_state and _save_state.
CCompute(c) ==
    LET out == ReadCompute(loc[c].path, file[loc[c].path], loc[c].loaded[1],
                           loc[c].overlap)
        write == CASE loc[c].op = "init_file" ->
                        Some(InitState(file[loc[c].path], loc[c].loaded,
                                       loc[c].chunk_size))
                   [] loc[c].op = "reset_position" ->
                        Some([loc[c].loaded[1] EXCEPT !.current_position = 0])
                   [] loc[c].op = "set_position" ->
                        Some([loc[c].loaded[1] EXCEPT !.current_position =
                                Clamp(loc[c].position, loc[c].loaded)])
                   [] OTHER -> out.write
    IN  /\ pc[c] = "loaded"
        /\ IF write = None
           THEN /\ Finish(c)            \* end of file, or RuntimeError
                /\ seen' = [seen EXCEPT !.calls[c] = @ + 1]
           ELSE /\ pc' = [pc EXCEPT ![c] = "computed"]
                /\ loc' = [loc EXCEPT ![c].write = write]
                /\ UNCHANGED seen
        /\ UNCHANGED <<file, cache, ret, run>>

\* _save_state: open(cache_file, 'w', encoding='utf-8')
CSaveOpen(c) ==
    /\ pc[c] = "computed"
    /\ cache' = [cache EXCEPT ![GetCacheFilePath(loc[c].path)] = TruncatedCache]
    /\ pc' = [pc EXCEPT ![c] = "opened"]
    /\ UNCHANGED <<file, ret, run, loc, seen>>

\* What the cache file holds after a descriptor opened earlier writes the dump
\* of state at offset 0.
Overwrite(c, state) ==
    IF c.len <= JsonLen(state)
    THEN [exists |-> TRUE, len |-> JsonLen(state), data |-> Some(state)]
    ELSE [exists |-> TRUE, len |-> c.len, data |-> None]

\* _save_state: json.dump(...) and the close of the with block
CSaveWrite(c) ==
    LET state == loc[c].write[1]
    IN  /\ pc[c] = "opened"
        /\ cache' = [cache EXCEPT ![GetCacheFilePath(loc[c].path)] =
                                       Overwrite(@, state)]
        /\ Finish(c)
        /\ seen' = [seen EXCEPT
                      !.calls[c] = @ + 1,
                      !.written = @ \cup {state.current_position},
                      !.zeroed = @ \/ (/\ state.current_position = 0
                                       /\ \E n \in seen.written : n > 0)]
        /\ UNCHANGED <<file, ret, run>>

InitConcurrent ==
    /\ file \in [{SharedPath} ->
                   {[exists |-> TRUE, text |-> t, mtime |-> 0] : t \in ConcurrentSources}]
    /\ cache = [k \in {GetCacheFilePath(SharedPath)} |->
                   SaveState(NoCache, InitState(file[SharedPath], None, 5), "ok")]
    /\ ret = NoCall
    /\ run = [p \in {SharedPath} |-> NotFresh]
    /\ pc = [c \in Callers |-> "idle"]
    /\ loc = [c \in Callers |-> Idle]
    /\ seen = [calls |-> [c \in Callers |-> 0], uninit |-> FALSE,
               written |-> {0}, zeroed |-> FALSE]

NextConcurrent ==
    \/ \E c \in Callers, cs \in ChunkSizes : CLoad(c, SharedPath, "init_file", cs, 0, 0)
    \/ \E c \in Callers, ov \in OverlapCounts : CLoad(c, SharedPath, "read_next_chunk", 0, ov, 0)
    \/ \E c \in Callers : CCompute(c)
    \/ \E c \in Callers : CSaveOpen(c)
    \/ \E c \in Callers : CSaveWrite(c)

SpecConcurrent == InitConcurrent /\ [][NextConcurrent]_vars

AllIdle == \A c \in Callers : pc[c] = "idle"

\* C10: concurrent calls on one source lose at most an update: no call finds
\* the source uninitialised, no write puts the offset back to 0 after a
\* positive offset was written, and once the calls have finished the cache
\* file holds a readable record whose offset was written by one of the calls
\* and lies within [0, total_size].
C10_OnlyLostUpdates ==
    /\ ~seen.uninit
    /\ ~seen.zeroed
    /\ AllIdle =>
          /\ HasRecord(SharedPath)
          /\ Persisted(SharedPath).current_position \in seen.written
          /\ 0 <= Persisted(SharedPath).current_position
          /\ Persisted(SharedPath).current_position <= Persisted(SharedPath).total_size


-----------------------------------------------------------------------------
(* Concurrent callers on different sources: one caller per source, each in  *)
(* its own NovelReader over the same cache directory, their steps           *)
(* interleaved.                                                             *)

SourceOf == [c \in Callers |-> IF c = 1 THEN "novel.txt" ELSE "other.txt"]

SourcePaths == {SourceOf[c] : c \in Callers}

InitSources ==
    /\ file \in [SourcePaths ->
                   {[exists |-> TRUE, text |-> t, mtime |-> 0] : t \in ConcurrentSources}]
    /\ cache = [k \in {GetCacheFilePath(p) : p \in SourcePaths} |-> NoCache]
    /\ ret = NoCall
    /\ run = [p \in SourcePaths |-> NotFresh]
    /\ pc = [c \in Callers |-> "idle"]
    /\ loc = [c \in Callers |-> Idle]
    /\ seen = [calls |-> [c \in Callers |-> 0], uninit |-> FALSE,
               written |-> {0}, zeroed |-> FALSE]

NextSources ==
    \/ \E c \in Callers, cs \in ChunkSizes :
          CLoad(c, SourceOf[c], "init_file", cs, 0, 0)
    \/ \E c \in Callers, ov \in OverlapCounts :
          CLoad(c, SourceOf[c], "read_next_chunk", 0, ov, 0)
    \/ \E c \in Callers : CLoad(c, SourceOf[c], "reset_position", 0, 0, 0)
    \/ \E c \in Callers, n \in Positions :
          CLoad(c, SourceOf[c], "set_position", 0, 0, n)
    \/ \E c \in Callers : CCompute(c)
    \/ \E c \in Callers : CSaveOpen(c)
    \/ \E c \in Callers : CSaveWrite(c)

SpecSources == InitSources /\ [][NextSources]_vars

\* Caller c took the step.
Stepped(c) == pc'[c] # pc[c] \/ seen'.calls[c] # seen.calls[c]

\* C11: a step of a call on one source leaves the cache file of every other
\* source as it was, and every call computes on the state that the calls on
\* its own source left: what _load_state returned is still what the cache
\* file of the source holds when the call reads the chunk and when it opens
\* the cache file to save.
C11_SourcesIndependent ==
    [][\A c \in Callers :
          /\ ~Stepped(c) =>
                cache'[GetCacheFilePath(SourceOf[c])] = cache[GetCacheFilePath(SourceOf[c])]
          /\ pc'[c] \in {"loaded", "computed"} =>
                loc'[c].loaded = LoadState(cache'[GetCacheFilePath(SourceOf[c])],
                                           file'[SourceOf[c]])]_vars

\* Both callers are in the middle of a call: one has opened its cache file
\* and the other has read a chunk and is about to save the new offset.
C11_Witness ==
    /\ DOMAIN file = SourcePaths
    /\ pc[1] = "opened"
    /\ pc[2] = "computed"
    /\ loc[2].op = "read_next_chunk"
    /\ loc[2].write[1].current_position > 0

-----------------------------------------------------------------------------
(* Subtitles: create_sentence_based_srt builds the cues of a narration text *)
(* from the word boundaries of its synthesis.  The function is the same in  *)
(* agents/audio_agent.py and agents/scene_agent.py.  Times are exact        *)
(* rationals here; the code holds them in binary floating point.            *)

Ni == "U+4F60"
Hao == "U+597D"
Jin == "U+4ECA"
Tian == "U+5929"
Qi == "U+6C14"
Hen == "U+5F88"
FullComma == "U+FF0C"
FullExclaim == "U+FF01"
FullQuestion == "U+FF1F"

\* 一-鿿 and 㐀-䶿
CjkChars == {Hanzi, Ni, Hao, Jin, Tian, Qi, Hen}

\* A-Za-z0-9
AsciiAlnum == {"a", "b", "c", "d", "x", "y"}

\* The characters clean_text_for_srt keeps; it deletes every other one.
SrtKept ==
    CjkChars \cup AsciiAlnum \cup Whitespace
        \cup {FullComma, IdeoStop, FullExclaim, ",", "."}

IsKept(c) == c \in SrtKept

\* re.sub(r'\s+', ' ', text): a run of whitespace becomes one space
CollapseSpaces(text) ==
    LET firsts == {i \in 1..Len(text) :
                      ~(text[i] \in Whitespace /\ i > 1 /\ text[i - 1] \in Whitespace)}
        at == SortedSeq(firsts)
    IN  [k \in 1..Len(at) |->
            IF text[at[k]] \in Whitespace THEN " " ELSE text[at[k]]]

\* clean_text_for_srt
CleanTextForSrt(text) == Strip(CollapseSpaces(SelectSeq(text, IsKept)))

\* [。！.!]
SentenceEnders == {IdeoStop, FullExclaim, ".", "!"}

\* ^[，。！,.!]+$
SrtPunctuation == {FullComma, IdeoStop, FullExclaim, ",", ".", "!"}

\* The positions in t of the characters of D, in order.
PositionsOf(t, D) == SortedSeq({i \in 1..Len(t) : t[i] \in D})

\* The text between the (k-1)-th and the k-th position of at, both excluded
\* (str.split on a one-character separator).
Between(t, at, k) ==
    SubSeq(t, IF k = 1 THEN 1 ELSE at[k - 1] + 1,
              IF k <= Len(at) THEN at[k] - 1 ELSE Len(t))

\* The sub-sentences of a sentence that holds question marks, given their
\* positions.
QuestionSplit(sentence, at) ==
    LET sub_parts == [j \in 1..(Len(at) + 1) |-> Strip(Between(sentence, at, j))]
        kept == SortedSeq({j \in 1..Len(sub_parts) : sub_parts[j] # << >>})
    IN  [k \in 1..Len(kept) |->
            IF kept[k] < Len(sub_parts)
            THEN sub_parts[kept[k]] \o <<FullQuestion>>
            ELSE sub_parts[kept[k]]]

\* What the first loop appends for one stripped, non-empty sentence.
Appended(clean_sentence) ==
    IF FullQuestion \in {clean_sentence[i] : i \in 1..Len(clean_sentence)}
    THEN QuestionSplit(clean_sentence, PositionsOf(clean_sentence, {FullQuestion}))
    ELSE IF Len(clean_sentence) > 1 THEN <<clean_sentence>>
    ELSE << >>

RECURSIVE AppendAll(_)
\* The first loop over the parts of re.split(r'([。！.!])', cleaned_text).
AppendAll(pieces) ==
    IF pieces = << >> THEN << >>
    ELSE Appended(Head(pieces)) \o AppendAll(Tail(pieces))

\* The test of the second loop (sentences are stripped already).
IsSpoken(sentence) ==
    /\ Len(sentence) > 1
    /\ \E i \in 1..Len(sentence) : sentence[i] \notin SrtPunctuation

\* The sentences of a cleaned text.
SrtSentences(cleaned_text) ==
    SelectSeq(AppendAll(Pieces(cleaned_text, PositionsOf(cleaned_text, SentenceEnders))),
              IsSpoken)

TicksPerSecond == 10000000

SmallGap == 500000              \* 0.05 s, in ticks

PerCharFloor == 800000          \* 0.08 s, in ticks

AbsoluteFloor == 10000000       \* 1.0 s, in ticks

\* re.sub(r'[，。！,.!\s]+', '', sentence)
IsKeyChar(c) == c \notin SrtPunctuation \cup Whitespace

SentenceClean(sentence) == SelectSeq(sentence, IsKeyChar)

\* str.find(key, from), with 0-based positions; -1 when key is not found
Find(joined_text, key, from) ==
    LET hits == {i \in from..(Len(joined_text) - Len(key)) :
                    SubSeq(joined_text, i + 1, i + Len(key)) = key}
    IN  IF hits = {} THEN -1 ELSE Min(hits)

\* joined_text.find(sentence_clean, last_end_idx), then from the start
FindKey(joined_text, key, last_end_idx) ==
    IF Find(joined_text, key, last_end_idx) # -1
    THEN Find(joined_text, key, last_end_idx)
    ELSE Find(joined_text, key, 0)

\* [b.get('text', '').strip() for b in word_boundaries]
BoundaryTexts(word_boundaries) ==
    [i \in 1..Len(word_boundaries) |-> Strip(word_boundaries[i].text)]

\* The loop that finds start_word_idx (0-based): the last boundary at which
\* char_count equals start_idx, 0 when there is none.
StartWordIdx(boundary_texts, start_idx) ==
    LET at == {i \in 0..(Len(boundary_texts) - 1) :
                  JoinLen(boundary_texts, i) = start_idx}
    IN  IF at = {} THEN 0 ELSE -Min({-i : i \in at})

\* A variant of the search for end_word_idx that always takes the last
\* boundary.
EndWordIdx_Last(boundary_texts, end_idx) ==
    Len(boundary_texts) - 1

\* The loop that finds end_word_idx (0-based): the first boundary whose last
\* character is at or after end_idx, the last boundary when there is none.
EndWordIdx(boundary_texts, end_idx) ==
    LET at == {i \in 0..(Len(boundary_texts) - 1) :
                  JoinLen(boundary_texts, i + 1) - 1 >= end_idx}
    IN  IF at = {} THEN Len(boundary_texts) - 1 ELSE Min(at)

\* Times are counted in units of 1/scale tick, scale being the number of
\* sentences, so that the even division of the fallback is exact.

\* The times of a sentence whose key was found at start_idx.
Matched(word_boundaries, scale, start_idx, end_idx, start_word_idx, end_word_idx) ==
    [start_time |-> word_boundaries[start_word_idx + 1].offset * scale,
     end_time |-> (word_boundaries[end_word_idx + 1].offset
                      + word_boundaries[end_word_idx + 1].duration) * scale,
     last_end_idx |-> end_idx + 1,
     matched |-> TRUE]

\* A variant of the even division that takes the span of the first word
\* boundary for the total.
Fallback_FirstUnit(word_boundaries, srt_index, last_end_idx) ==
    LET first == word_boundaries[1]
    IN  [start_time |-> (srt_index - 1) * (first.offset + first.duration),
         end_time |-> srt_index * (first.offset + first.duration),
         last_end_idx |-> last_end_idx,
         matched |-> FALSE]

\* The times of the srt_index-th sentence when its key was not found:
\* total_duration / len(sentences) each.
Fallback(word_boundaries, srt_index, last_end_idx) ==
    LET last == word_boundaries[Len(word_boundaries)]
    IN  [start_time |-> (srt_index - 1) * (last.offset + last.duration),
         end_time |-> srt_index * (last.offset + last.duration),
         last_end_idx |-> last_end_idx,
         matched |-> FALSE]

\* The times of a sentence before they are made increasing.
Located(word_boundaries, boundary_texts, scale, srt_index, key, start_idx, last_end_idx) ==
    IF start_idx = -1
    THEN Fallback(word_boundaries, srt_index, last_end_idx)
    ELSE Matched(word_boundaries, scale, start_idx, start_idx + Len(key) - 1,
                 StartWordIdx(boundary_texts, start_idx),
                 EndWordIdx(boundary_texts, start_idx + Len(key) - 1))

\* A variant of the increasing start that keeps the located start.
ShiftedStart_Keeps(scale, srt_index, start_time, prev_end_time) ==
    start_time

\* if srt_index > 1 and start_time < prev_end_time: start_time = prev_end_time + 0.05
ShiftedStart(scale, srt_index, start_time, prev_end_time) ==
    IF srt_index > 1 /\ start_time < prev_end_time
    THEN prev_end_time + SmallGap * scale
    ELSE start_time

\* if end_time <= start_time: end_time = start_time + max(len(sentence) * 0.08, 1.0)
FlooredEnd(scale, sentence, start_time, end_time) ==
    IF end_time <= start_time
    THEN start_time + MaxOf(Len(sentence) * PerCharFloor, AbsoluteFloor) * scale
    ELSE end_time

\* format_srt_time, for a time in units of 1/scale tick: the fields of
\* HH:MM:SS,mmm
FormatSrtTime(time, scale) ==
    LET whole == time \div (TicksPerSecond * scale)      \* full seconds
    IN  [hours |-> whole \div 3600,
         minutes |-> (whole % 3600) \div 60,
         secs |-> whole % 60,
         millisecs |-> (time % (TicksPerSecond * scale))
                          \div ((TicksPerSecond \div 1000) * scale)]

\* A variant of the cue in which a sentence that was not matched does not
\* take a new index.
Cue_FallbackKeepsIndex(scale, srt_index, sentence, located, start_time, end_time) ==
    [index |-> IF located.matched THEN srt_index ELSE srt_index - 1,
     start_time |-> start_time,
     end_time |-> end_time,
     start_str |-> FormatSrtTime(start_time, scale),
     end_str |-> FormatSrtTime(end_time, scale),
     text |-> sentence,
     matched |-> located.matched,
     last_end_idx |-> located.last_end_idx,
     located_start |-> located.start_time,
     located_end |-> located.end_time]

\* One cue: the end of the loop body, from the times made increasing.
Cue(scale, srt_index, sentence, located, start_time, end_time) ==
    [index |-> srt_index,
     start_time |-> start_time,
     end_time |-> end_time,
     start_str |-> FormatSrtTime(start_time, scale),
     end_str |-> FormatSrtTime(end_time, scale),
     text |-> sentence,
     matched |-> located.matched,
     last_end_idx |-> located.last_end_idx,
     located_start |-> located.start_time,
     located_end |-> located.end_time]

\* The loop body from the shifted start: the minimum duration.
Floored(scale, srt_index, sentence, located, start_time) ==
    Cue(scale, srt_index, sentence, located, start_time,
        FlooredEnd(scale, sentence, start_time, located.end_time))

\* The loop body from the located times: the increasing start.
Shifted(scale, srt_index, sentence, located, prev_end_time) ==
    Floored(scale, srt_index, sentence, located,
            ShiftedStart(scale, srt_index, located.start_time, prev_end_time))

\* The loop body from the key of the sentence.
KeyedCue(word_boundaries, boundary_texts, scale, srt_index, sentence, key, last_end_idx, prev_end_time) ==
    Shifted(scale, srt_index, sentence,
            Located(word_boundaries, boundary_texts, scale, srt_index, key,
                    FindKey(Join(boundary_texts), key, last_end_idx), last_end_idx),
            prev_end_time)

RECURSIVE CuesFrom(_, _, _, _, _)
\* The loop over the sentences, from the srt_index-th on; done holds the cues
\* made so far.
CuesFrom(word_boundaries, boundary_texts, sentences, srt_index, done) ==
    IF srt_index > Len(sentences) THEN done
    ELSE CuesFrom(word_boundaries, boundary_texts, sentences, srt_index + 1,
                  Append(done,
                         KeyedCue(word_boundaries, boundary_texts, Len(sentences),
                                  srt_index, sentences[srt_index],
                                  SentenceClean(sentences[srt_index]),
                                  IF done = << >> THEN 0
                                  ELSE done[Len(done)].last_end_idx,
                                  IF done = << >> THEN 0
                                  ELSE done[Len(done)].end_time)))

\* return ""
NoSrt == [op |-> "create_sentence_based_srt", cues |-> << >>, scale |-> 1]

\* create_sentence_based_srt, from the sentences
SrtOf(word_boundaries, sentences) ==
    IF sentences = << >> THEN NoSrt
    ELSE [op |-> "create_sentence_based_srt",
          cues |-> CuesFrom(word_boundaries, BoundaryTexts(word_boundaries),
                            sentences, 1, << >>),
          scale |-> Len(sentences)]

\* create_sentence_based_srt
CreateSentenceBasedSrt(word_boundaries, text) ==
    IF word_boundaries = << >> THEN NoSrt
    ELSE SrtOf(word_boundaries, SrtSentences(CleanTextForSrt(text)))

MaxUnits == 3       \* word boundaries collected for one narration

\* Two sentences, each ended by its own mark.
NarrationTwo == <<Ni, Hao, IdeoStop, Jin, Tian, Tian, Qi, Hen, Hao, FullExclaim>>

\* The same sentence twice.
NarrationTwice == <<Ni, Hao, IdeoStop, " ", Ni, Hao, IdeoStop>>

\* Characters the cleaning deletes, whitespace runs, a sentence of marks only
\* and an unterminated last sentence.
NarrationMixed == <<"a", "b", "!", " ", "?", "c", "d", ".", LF, " ", FullComma,
                    " ", ",", IdeoStop, Hao, IdeoStop, "x", "y">>

Narrations == {NarrationTwo, NarrationTwice, NarrationMixed}

UnitTexts == {<<Ni, Hao>>, <<Jin, Tian, Tian, Qi, Hen, Hao>>, <<Ni>>, <<Hao, " ">>}

UnitOffsets == {0, 20000000}

UnitDurations == {5000, 20000000}

\* A word boundary of no duration.
Instant == [text |-> <<Jin, Tian, Tian, Qi, Hen, Hao>>, offset |-> 20000000, duration |-> 0]

TimingUnits ==
    {[text |-> t, offset |-> o, duration |-> d] :
        t \in UnitTexts, o \in UnitOffsets, d \in UnitDurations} \cup {Instant}

\* for chunk in communicate.stream_sync(): a WordBoundary chunk arrives
Collect(unit) ==
    /\ pc = "collecting"
    /\ Len(loc.word_boundaries) < MaxUnits
    /\ loc' = [loc EXCEPT !.word_boundaries = Append(@, unit)]
    /\ UNCHANGED <<file, cache, ret, run, pc, seen>>

\* srt_content = create_sentence_based_srt(word_boundaries, script_content)
CreateSrt ==
    /\ pc = "collecting"
    /\ ret' = CreateSentenceBasedSrt(loc.word_boundaries, loc.text)
    /\ pc' = "done"
    /\ UNCHANGED <<file, cache, run, loc, seen>>

InitSrt ==
    /\ file = << >>
    /\ cache = << >>
    /\ ret = NoCall
    /\ run = << >>
    /\ pc = "collecting"
    /\ loc \in {[word_boundaries |-> << >>, text |-> t] : t \in Narrations}
    /\ seen = << >>

NextSrt ==
    \/ \E u \in TimingUnits : Collect(u)
    \/ CreateSrt

SpecSrt == InitSrt /\ [][NextSrt]_vars

\* The sentences create_sentence_based_srt retains for the narration.
Retained == SrtSentences(CleanTextForSrt(loc.text))

Emitted == pc = "done" /\ ret.op = "create_sentence_based_srt"

\* C12: the cues are in time order without overlap: each cue starts no
\* earlier than the cue before it ends, whether its sentence was matched or
\* fell back to the even division.
C12_CuesOrdered ==
    Emitted =>
        \A i \in 1..(Len(ret.cues) - 1) :
            ret.cues[i + 1].start_time >= ret.cues[i].end_time

\* A matched cue and a fallback cue were both moved behind the cue before.
C12_Witness ==
    /\ Emitted
    /\ \E i, j \in 2..Len(ret.cues) :
          /\ ret.cues[i].matched
          /\ ~ret.cues[j].matched
          /\ ret.cues[i].start_time = ret.cues[i - 1].end_time + SmallGap * ret.scale
          /\ ret.cues[j].start_time = ret.cues[j - 1].end_time + SmallGap * ret.scale

\* C13: every cue lasts: its end_time is after its start_time, and the end
\* timestamp written for it is after the start timestamp written for it.
C13_PositiveDuration ==
    Emitted =>
        \A i \in 1..Len(ret.cues) :
            /\ ret.cues[i].end_time > ret.cues[i].start_time
            /\ ret.cues[i].end_str # ret.cues[i].start_str

\* C14: the cues are numbered 1, 2, ..., N in order, N being the number of
\* sentences the call retained, one cue for each of them in the order of the
\* narration (a call without word boundaries returns before it segments the
\* narration and emits no cue).
C14_IndicesContiguous ==
    Emitted =>
        /\ \A i \in 1..Len(ret.cues) : ret.cues[i].index = i
        /\ IF loc.word_boundaries = << >>
           THEN ret.cues = << >>
           ELSE /\ Len(ret.cues) = Len(Retained)
                /\ \A i \in 1..Len(ret.cues) : ret.cues[i].text = Retained[i]

\* Four cues, matched and fallback ones mixed.
C14_Witness ==
    /\ Emitted
    /\ Len(ret.cues) = 4
    /\ ~ret.cues[1].matched
    /\ ret.cues[3].matched
    /\ ~ret.cues[4].matched

\* C15: the call always yields a complete cue list: one cue for every
\* sentence retained from the narration, each with a positive duration in the
\* timestamps written and none starting before the one before it ends, also
\* when keys are missing from the word boundaries.
C15_AlwaysComplete ==
    Emitted =>
        /\ Len(ret.cues) = Len(Retained)
        /\ \A i \in 1..Len(ret.cues) :
              /\ ret.cues[i].text = Retained[i]
              /\ ret.cues[i].end_time > ret.cues[i].start_time
              /\ i > 1 => ret.cues[i].start_time >= ret.cues[i - 1].end_time

\* The keys of the retained sentences and the stripped texts of the word
\* boundaries collected.
Keys == [k \in 1..Len(Retained) |-> SentenceClean(Retained[k])]

Texts == BoundaryTexts(loc.word_boundaries)

\* The number of word boundaries that spell the first k keys.
BlockEnd(k) ==
    IF k = 0 THEN 0
    ELSE CHOOSE i \in 1..Len(Texts) : JoinLen(Texts, i) = JoinLen(Keys, k)

\* Every sentence is spelled exactly by a run of word boundaries of its own.
ExactlyMatched ==
    /\ loc.word_boundaries # << >>
    /\ Retained # << >>
    /\ \A i \in 1..Len(Texts) : Texts[i] # << >>
    /\ \A k \in 1..Len(Keys) : Keys[k] # << >>
    /\ Join(Texts) = Join(Keys)
    /\ \A k \in 1..Len(Keys) :
          \E i \in 1..Len(Texts) : JoinLen(Texts, i) = JoinLen(Keys, k)

\* The ticks [s, e] spanned by the word boundaries of the k-th sentence.
SpanStart(k) == loc.word_boundaries[BlockEnd(k - 1) + 1].offset

SpanEnd(k) ==
    loc.word_boundaries[BlockEnd(k)].offset + loc.word_boundaries[BlockEnd(k)].duration

\* Every span lasts and none starts before the span of the sentence before
\* it ends.
SpansOrdered ==
    \A k \in 1..Len(Keys) :
        /\ SpanStart(k) < SpanEnd(k)
        /\ k > 1 => SpanEnd(k - 1) <= SpanStart(k)

\* The cues are those of the spans: one per sentence, from s / 10,000,000 to
\* e / 10,000,000 seconds.
CuesAreSpans ==
    /\ Len(ret.cues) = Len(Keys)
    /\ \A k \in 1..Len(Keys) :
          /\ ret.cues[k].text = Retained[k]
          /\ ret.cues[k].start_time = SpanStart(k) * ret.scale
          /\ ret.cues[k].end_time = SpanEnd(k) * ret.scale

\* Two sentences spelled by two word boundaries of ticks [0, 20000000] and
\* [20000000, 40000000].
TwoSpans ==
    /\ loc.text = NarrationTwo
    /\ loc.word_boundaries =
          <<[text |-> <<Ni, Hao>>, offset |-> 0, duration |-> 20000000],
            [text |-> <<Jin, Tian, Tian, Qi, Hen, Hao>>, offset |-> 20000000,
             duration |-> 20000000]>>

\* 00:00:00,000 --> 00:00:02,000 and 00:00:02,000 --> 00:00:04,000
TwoCues ==
    /\ Len(ret.cues) = 2
    /\ ret.cues[1].start_str = [hours |-> 0, minutes |-> 0, secs |-> 0, millisecs |-> 0]
    /\ ret.cues[1].end_str = [hours |-> 0, minutes |-> 0, secs |-> 2, millisecs |-> 0]
    /\ ret.cues[2].start_str = [hours |-> 0, minutes |-> 0, secs |-> 2, millisecs |-> 0]
    /\ ret.cues[2].end_str = [hours |-> 0, minutes |-> 0, secs |-> 4, millisecs |-> 0]

\* C16 as stated: when every sentence is spelled exactly by word boundaries
\* spanning ticks [s, e], its cue runs from s / 10,000,000 to e / 10,000,000
\* seconds, whatever the spans are; the two-sentence scenario gives the two
\* cues 00:00:00,000 --> 00:00:02,000 and 00:00:02,000 --> 00:00:04,000.
C16_ExactSpans ==
    Emitted =>
        /\ ExactlyMatched => CuesAreSpans
        /\ TwoSpans => TwoCues

\* C16, amended: when every sentence is spelled exactly by word boundaries
\* spanning ticks [s, e] with s < e, and no span starts before the span of
\* the sentence before it ends, the cue of each sentence runs from
\* s / 10,000,000 to e / 10,000,000 seconds; the two-sentence scenario gives
\* the two cues 00:00:00,000 --> 00:00:02,000 and 00:00:02,000 --> 00:00:04,000.
C16_OrderedExactSpans ==
    Emitted =>
        /\ (ExactlyMatched /\ SpansOrdered) => CuesAreSpans
        /\ TwoSpans => TwoCues

\* The two-sentence scenario has been aligned.
C16_Witness ==
    /\ Emitted
    /\ TwoSpans
    /\ ExactlyMatched
    /\ SpansOrdered
    /\ TwoCues

-----------------------------------------------------------------------------
(* Re-initialisation, explicit positions and the first read, checked on the *)
(* calls of Spec.                                                           *)

\* The reading state in the cache file of p after the step.
PersistedNext(p) == cache'[GetCacheFilePath(p)].data[1]

\* C17: an init_file call on a source whose fingerprint differs from the one
\* stored with its reading state, and whose state is written, leaves a
\* persisted offset of 0 with the fingerprint and the size of the source as
\* it is now.
C17_ReinitResets ==
    [][\A p \in Paths :
          (/\ CallStep("init_file", p)
           /\ HasRecord(p)
           /\ Persisted(p).file_hash # GetFileHash(file[p])
           /\ ret'.kind = "returned"
           /\ ret'.save = "ok")
              => /\ PersistedNext(p).current_position = 0
                 /\ PersistedNext(p).file_hash = GetFileHash(file[p])
                 /\ PersistedNext(p).total_size = FileSize(file[p].text)]_vars

\* init_file has returned for a source that was replaced by one of another
\* size after its reading state was written.
C17_Witness ==
    /\ ret.op = "init_file"
    /\ ret.kind = "returned"
    /\ ret.save = "ok"
    /\ file[ret.path].mtime > 0
    /\ Persisted(ret.path).current_position = 0
    /\ Persisted(ret.path).file_hash = GetFileHash(file[ret.path])
    /\ Persisted(ret.path).total_size > 0

\* What reset_position and set_position are to do on p: with a reading state,
\* return True and, the state being written, change its offset to target and
\* nothing else; without one, return False and leave the cache alone.
Moved(p, target) ==
    IF HasRecord(p)
    THEN /\ ret'.value = Some(TRUE)
         /\ ret'.save = "ok" =>
               cache'[GetCacheFilePath(p)].data =
                   Some([Persisted(p) EXCEPT !.current_position = target])
    ELSE /\ ret'.value = Some(FALSE)
         /\ cache' = cache

\* C19: reset_position sets the persisted offset to 0 and set_position(n)
\* sets it to n clamped into [0, total_size]; both change no other field of
\* the reading state, and both return False and create nothing for a source
\* without reading state.
C19_PositionsSet ==
    [][\A p \in Paths, d \in DiskOutcomes :
          /\ ResetPosition(p, d) => Moved(p, 0)
          /\ \A n \in Positions :
                SetPosition(p, n, d) =>
                    Moved(p, IF ~HasRecord(p) \/ n < 0 THEN 0
                             ELSE IF n > Persisted(p).total_size
                             THEN Persisted(p).total_size
                             ELSE n)]_vars

-----------------------------------------------------------------------------
(* Restarting the process between calls.  A NovelReader object holds only    *)
(* its cache_dir; every call loads the reading state from the cache file.    *)
(* Two runs receive the same calls with the same disk outcomes: one builds   *)
(* a new NovelReader() before each call, as the agent tools do, the other    *)
(* builds one reader and keeps it.  cache, ret and pc.restart belong to the  *)
(* restarting run; seen and pc.kept to the run that keeps its reader, and    *)
(* loc is that reader.                                                       *)

NoReader == << >>

\* A variant of the constructor that clears the cache directory it is given.
EnsureCacheDir_Recreates(exists, files) == [k \in DOMAIN files |-> NoCache]

\* __init__ / _ensure_cache_dir: the cache directory is made when it is
\* missing; a directory that exists is left as it is.
EnsureCacheDir(exists, files) ==
    IF exists THEN files ELSE [k \in DOMAIN files |-> NoCache]

\* NovelReader(): the object and the cache directory after construction
NewReader(exists, files) ==
    [reader |-> [cache_dir |-> CacheDir], files |-> EnsureCacheDir(exists, files)]

\* The effect of a finished call on the files of a cache directory.
Written(files, p, out) == [files EXCEPT ![GetCacheFilePath(p)] = out.cache]

\* Both runs end a call on p: restarted is the outcome in the run that built
\* a new reader on the directory made, kept the outcome with the kept reader.
CommitBoth(p, made, restarted, kept) ==
    /\ cache' = Written(made, p, restarted)
    /\ ret' = restarted.ret
    /\ seen' = [cache |-> Written(seen.cache, p, kept), ret |-> kept.ret]
    /\ pc' = [pc EXCEPT !.restart = TRUE]
    /\ UNCHANGED <<file, run, loc>>

\* reader = NovelReader() in the run that keeps its reader
Construct ==
    /\ loc = NoReader
    /\ loc' = Some(NewReader(pc.kept, seen.cache).reader)
    /\ seen' = [seen EXCEPT !.cache = NewReader(pc.kept, seen.cache).files]
    /\ pc' = [pc EXCEPT !.kept = TRUE]
    /\ UNCHANGED <<file, cache, ret, run>>

InitOn(p, chunk_size, disk, made) ==
    CommitBoth(p, made,
               InitFileCall(p, file[p], made[GetCacheFilePath(p)], chunk_size, disk),
               InitFileCall(p, file[p], seen.cache[GetCacheFilePath(p)], chunk_size, disk))

ReadOn(p, overlap_sentences, disk, made) ==
    CommitBoth(p, made,
               ReadNextChunkCall(p, file[p], made[GetCacheFilePath(p)],
                                 overlap_sentences, disk),
               ReadNextChunkCall(p, file[p], seen.cache[GetCacheFilePath(p)],
                                 overlap_sentences, disk))

\* init_novel_reading: NovelReader() and then init_file, against
\* reader.init_file on the kept reader
RestartInitFile(p, chunk_size, disk) ==
    /\ loc # NoReader
    /\ InitOn(p, chunk_size, disk, NewReader(pc.restart, cache).files)

\* read_novel_chunk: NovelReader() and then read_next_chunk, against
\* reader.read_next_chunk on the kept reader
RestartReadNextChunk(p, overlap_sentences, disk) ==
    /\ loc # NoReader
    /\ ReadOn(p, overlap_sentences, disk, NewReader(pc.restart, cache).files)

InitRestart ==
    /\ file \in [Paths -> {[exists |-> TRUE, text |-> t, mtime |-> 0] : t \in Sources}]
    /\ cache = [k \in {GetCacheFilePath(p) : p \in Paths} |-> NoCache]
    /\ ret = NoCall
    /\ run = [p \in Paths |-> NotFresh]
    /\ pc = [restart |-> FALSE, kept |-> FALSE]
    /\ loc = NoReader
    /\ seen = [cache |-> [k \in {GetCacheFilePath(p) : p \in Paths} |-> NoCache],
               ret |-> NoCall]

NextRestart ==
    \/ Construct
    \/ \E p \in Paths, cs \in ChunkSizes, d \in DiskOutcomes : RestartInitFile(p, cs, d)
    \/ \E p \in Paths, ov \in OverlapCounts, d \in DiskOutcomes :
           RestartReadNextChunk(p, ov, d)
    \/ \E p \in Paths, t \in Sources : ReplaceFile(p, t)

SpecRestart == InitRestart /\ [][NextRestart]_vars

\* C18: a read_next_chunk call made on a reader built anew from the persisted
\* state returns the same chunk, is_end flag and offsets, and leaves the same
\* persisted state, as the same call made on a reader kept throughout.
C18_RestartChangesNothing ==
    [][ret'.op = "read_next_chunk"
           => /\ ret'.kind = seen'.ret.kind
              /\ ret'.text = seen'.ret.text
              /\ ret'.is_end = seen'.ret.is_end
              /\ ret'.info = seen'.ret.info
              /\ cache' = seen'.cache]_vars

\* A second read has returned in the restarting run: it resumed at the offset
\* the first read persisted.
C18_Witness ==
    /\ loc # NoReader
    /\ pc.restart
    /\ IsRead(ret)
    /\ ret.start > 0
    /\ ret.info.current_position > ret.start
    /\ ret.text # << >>
    /\ seen.ret = ret


-----------------------------------------------------------------------------
(* The two sentence segmenters on short texts: _split_into_sentences of the  *)
(* reader, and the split that create_sentence_based_srt makes of the         *)
(* narration text it has cleaned.  loc.text is the input, ret the sentences. *)

MaxSegLen == 3      \* length of the longest segmented text

SegChars == {"a", Hao, ".", "!", IdeoStop, " ", LF}

SegTexts == UNION {[1..n -> SegChars] : n \in 0..MaxSegLen}

SegTerminators == CjkTerminators \cup AsciiTerminators \cup SentenceEnders

\* self._split_into_sentences(text)
SplitText ==
    /\ pc = "input"
    /\ ret' = [op |-> "_split_into_sentences",
               sentences |-> SplitIntoSentences(loc.text)]
    /\ pc' = "split"
    /\ UNCHANGED <<file, cache, run, loc, seen>>

\* create_sentence_based_srt up to its list of sentences
SplitNarration ==
    /\ pc = "input"
    /\ ret' = [op |-> "create_sentence_based_srt",
               sentences |-> SrtSentences(CleanTextForSrt(loc.text))]
    /\ pc' = "split"
    /\ UNCHANGED <<file, cache, run, loc, seen>>

InitSegment ==
    /\ file = << >>
    /\ cache = << >>
    /\ run = << >>
    /\ seen = << >>
    /\ ret = NoCall
    /\ pc = "input"
    /\ loc \in {[text |-> t] : t \in SegTexts}

NextSegment == SplitText \/ SplitNarration

SpecSegment == InitSegment /\ [][NextSegment]_vars

\* The positions of the non-whitespace characters of t, in order.
InkAt(t) == SortedSeq({i \in 1..Len(t) : IsInk(t[i])})

\* The number of non-whitespace characters in the first k sentences.
InkBefore(ss, k) == Len(Ink(Join(SubSeq(ss, 1, k))))

\* No sentence of ss begins with a terminal mark that, in t, directly follows
\* a character of the sentence before it that is not a terminal mark.
StaysAttached(t, ss) ==
    \A k \in 1..(Len(ss) - 1) :
        LET c == InkBefore(ss, k)
            at == InkAt(t)
        IN  ~ /\ c >= 1
              /\ c < Len(at)
              /\ at[c + 1] = at[c] + 1
              /\ t[at[c]] \notin SegTerminators
              /\ t[at[c + 1]] \in SegTerminators

Complete(t, ss) == Ink(Join(ss)) = Ink(t) /\ StaysAttached(t, ss)

\* The reader's segmenter alone: its sentences, joined, are the text up to
\* whitespace, and a terminal mark stays with the sentence it ends.
ReaderSegmenterComplete ==
    (pc = "split" /\ ret.op = "_split_into_sentences")
        => Complete(loc.text, ret.sentences)

\* C21: the sentences a segmenter returns, joined in order, are the input up
\* to whitespace: no other character is dropped, duplicated or moved, and a
\* terminal mark stays with the sentence it ends.
C21_SegmenterComplete ==
    pc = "split" => Complete(loc.text, ret.sentences)


-----------------------------------------------------------------------------
(* The cut of a chunk in a full lookahead buffer, and the overlap, checked   *)
(* on the calls of Spec.                                                     *)

\* The lookahead of the read that has just returned on p: f.read(buffer_size)
\* at the position the call started from.
LookaheadOf(p, start) ==
    ReadAt(file[p].text, start, Persisted(p).chunk_size + ExtraBuffer).text

\* A read_next_chunk call on p returns with its lookahead buffer full.
FullRead(p) ==
    /\ CallStep("read_next_chunk", p)
    /\ HasRecord(p)
    /\ ret'.kind = "returned"
    /\ ret'.lookahead = Persisted(p).chunk_size + ExtraBuffer

FirstEndFrom(sentences, chunk_size, n) ==
    \A k \in 1..Len(sentences) :
        ~ /\ JoinLen(sentences, k) >= chunk_size
          /\ JoinLen(sentences, k) < n

\* The chunk is the first n characters of the lookahead, with n from
\* chunk_size up to the size of the buffer and at the first sentence end
\* from chunk_size on.
CutAtOrAfter(raw_text, sentences, chunk_size, chunk, n) ==
    /\ n >= chunk_size
    /\ n <= chunk_size + ExtraBuffer
    /\ chunk = Take(raw_text, n)
    /\ FirstEndFrom(sentences, chunk_size, n)

TextBefore(p, start) == Take(file[p].text, SeekIndex(file[p].text, start))

\* "".join of the last k sentences of sentences (all of them when fewer).
LastK(sentences, k) ==
    Join(SubSeq(sentences, MaxOf(1, Len(sentences) - k + 1), Len(sentences)))

\* A read_next_chunk(p, k) call returns a text read from offset start > 0.
OverlapRead(p, k) ==
    /\ \E d \in DiskOutcomes : ReadNextChunk(p, k, d)
    /\ ret'.kind = "returned"
    /\ ret'.text # << >>
    /\ ret'.start > 0

\* The text returned from an offset > 0 with k > 0 begins with the last k
\* sentences of the source text before the offset.
BeginsWithPreceding ==
    \A p \in Paths, k \in OverlapCounts \ {0} :
        OverlapRead(p, k)
            => \A sentences \in {SplitIntoSentences(TextBefore(p, ret'.start))} :
                   IsPrefix(LastK(sentences, k), ret'.text)

\* With k = 1, the text of a call begins with the last sentence of the
\* non-overlap content the call before it returned.
BeginsWithLastReturned ==
    \A p \in Paths :
        (/\ IsRead(ret) /\ ret.path = p /\ ret.save = "ok" /\ ret.chunk # << >>
         /\ OverlapRead(p, 1))
            => \A sentences \in {SplitIntoSentences(ret.chunk)} :
                   IsPrefix(LastK(sentences, 1), ret'.text)

\* A text read from offset 0 carries no overlap.
NoOverlapAtStart ==
    \A p \in Paths :
        (CallStep("read_next_chunk", p) /\ ret'.kind = "returned"
                                        /\ ret'.text # << >> /\ ret'.start = 0)
            => ~ret'.info.has_overlap /\ ret'.info.overlap_size = 0

\* C23: a text read from an offset > 0 with k > 0 overlap sentences begins
\* with the last k sentences of the source text before the offset; with k = 1
\* it begins with the last sentence the call before returned as non-overlap
\* content; a text read from offset 0 carries no overlap.
C23_OverlapPrefix ==
    [][BeginsWithPreceding /\ BeginsWithLastReturned /\ NoOverlapAtStart]_vars


-----------------------------------------------------------------------------
(* The times a sentence is given before they are made increasing, checked    *)
(* on the cues of SpecSrt: located_start and located_end of a cue are the    *)
(* start_time and end_time the loop body computed for its sentence.          *)

\* The word boundary (0-based) whose characters, in the joined text, include
\* position c (0-based).
CoveringUnit(boundary_texts, c) ==
    CHOOSE i \in 0..(Len(boundary_texts) - 1) :
        JoinLen(boundary_texts, i) <= c /\ c < JoinLen(boundary_texts, i + 1)

\* The cue of a sentence whose non-empty key was found in the joined text.
FoundKey(cue) == cue.matched /\ SentenceClean(cue.text) # << >>

\* The position (0-based) of the first matched character of a found cue.
StartIdx(cue) == cue.last_end_idx - Len(SentenceClean(cue.text))

StartsAtCovering(word_boundaries, boundary_texts, scale, cue) ==
    cue.located_start
        = word_boundaries[CoveringUnit(boundary_texts, StartIdx(cue)) + 1].offset * scale

EndsAtCovering(word_boundaries, boundary_texts, scale, cue) ==
    \A unit \in {word_boundaries[CoveringUnit(boundary_texts, cue.last_end_idx - 1) + 1]} :
        cue.located_end = (unit.offset + unit.duration) * scale

\* The end_time of every found sentence is offset + duration of the word
\* boundary that covers its last matched character.
FoundEndsAtCovering ==
    Emitted =>
        \A k \in 1..Len(ret.cues) :
            FoundKey(ret.cues[k])
                => EndsAtCovering(loc.word_boundaries, BoundaryTexts(loc.word_boundaries),
                                  ret.scale, ret.cues[k])

\* C24: the start_time computed for a sentence whose key is found is the
\* offset of the word boundary that covers the first matched character, and
\* its end_time is offset + duration of the word boundary that covers the
\* last matched character.
C24_CoveringUnits ==
    Emitted =>
        \A k \in 1..Len(ret.cues) :
            FoundKey(ret.cues[k])
                => /\ StartsAtCovering(loc.word_boundaries,
                                       BoundaryTexts(loc.word_boundaries),
                                       ret.scale, ret.cues[k])
                   /\ EndsAtCovering(loc.word_boundaries,
                                     BoundaryTexts(loc.word_boundaries),
                                     ret.scale, ret.cues[k])


\* offset + duration of the last word boundary, in ticks
TotalSpan(word_boundaries) ==
    word_boundaries[Len(word_boundaries)].offset
        + word_boundaries[Len(word_boundaries)].duration

\* The number of cues whose sentence was not found.
Unmatched(cues) == Cardinality({k \in 1..Len(cues) : ~cues[k].matched})

\* The sentence of a cue is marked as not found exactly when its key occurs
\* nowhere in the joined text of the word boundaries.
FallsBackWhenAbsent(word_boundaries, cue) ==
    ~cue.matched
        <=> Find(Join(BoundaryTexts(word_boundaries)), SentenceClean(cue.text), 0) = -1

-----------------------------------------------------------------------------
(* Resuming, progress and the end of the source, checked on the calls of     *)
(* Spec.                                                                     *)

-----------------------------------------------------------------------------
(* The read loop: a caller that keeps calling read_next_chunk on a source    *)
(* that was initialised (and possibly positioned with set_position) and      *)
(* does not change, every state being written.                               *)

MaxStart == 3       \* the largest offset the loop is started from

\* One ASCII character and then a character of three bytes.
FTail == <<"a", Hanzi>>

GapLen == 210       \* length of the run of spaces of FGap

\* A sentence and then a long run of spaces.
FGap == <<"a", "b", "c", "d", "e", ".">> \o Rep(" ", GapLen)

LoopSources == Sources \cup {FTail, FGap}

LoopPath == "novel.txt"

LoopFiles == {[exists |-> TRUE, text |-> t, mtime |-> 0] : t \in LoopSources}

\* The cache file of an initialised source whose persisted offset is
\* position: what init_file(chunk_size) writes, and what set_position and
\* read_next_chunk leave of it on an unchanging source.
LoopRecord(fl, chunk_size, position) ==
    SaveState(NoCache,
              [InitState(fl, None, chunk_size) EXCEPT !.current_position = position],
              "ok")

\* The largest size of a source of the loop.
LoopMaxSize == CHOOSE n \in {FileSize(t) : t \in LoopSources} :
                   \A t \in LoopSources : FileSize(t) <= n

\* read_next_chunk(LoopPath, overlap_sentences) for every source of the loop
\* and every reading state it can be called in, each state being written.
LoopCalls ==
    [fl \in LoopFiles, chunk_size \in ChunkSizes, overlap_sentences \in OverlapCounts,
     position \in 0..LoopMaxSize |->
        IF position <= FileSize(fl.text)
        THEN ReadNextChunkCall(LoopPath, fl, LoopRecord(fl, chunk_size, position),
                               overlap_sentences, "ok")
        ELSE [ret |-> NoCall, cache |-> NoCache]]

\* while True: reader.read_next_chunk(file_path, overlap_sentences)
LoopRead(overlap_sentences) ==
    /\ HasRecord(LoopPath)
    /\ cache[GetCacheFilePath(LoopPath)]
           = LoopRecord(file[LoopPath], Persisted(LoopPath).chunk_size,
                        Persisted(LoopPath).current_position)
    /\ CommitRead(LoopPath,
                  LoopCalls[file[LoopPath], Persisted(LoopPath).chunk_size,
                            overlap_sentences, Persisted(LoopPath).current_position])

InitReadLoop ==
    /\ file \in [{LoopPath} -> LoopFiles]
    /\ cache \in {[k \in {GetCacheFilePath(LoopPath)} |->
                      LoopRecord(file[LoopPath], cs,
                                 MinOf(n, FileSize(file[LoopPath].text)))] :
                     cs \in ChunkSizes, n \in 0..MaxStart}
    /\ ret = NoCall
    /\ run = [p \in {LoopPath} |-> NotFresh]
    /\ pc = << >>
    /\ loc = << >>
    /\ seen = << >>

NextReadLoop == \E ov \in OverlapCounts : LoopRead(ov)

\* The caller keeps calling: a call that can be made is made.
SpecReadLoop == InitReadLoop /\ [][NextReadLoop]_vars /\ WF_vars(NextReadLoop)

\* Every read that finds a non-empty lookahead leaves a persisted offset
\* greater than the one it found.
ReadsAdvance ==
    [][(ret'.kind = "returned" /\ ret'.lookahead > 0)
           => PersistedNext(LoopPath).current_position
                  > Persisted(LoopPath).current_position]_vars

\* C27: on an initialised, unchanging source, where every read of a
\* non-empty lookahead leaves a greater persisted offset, a caller that keeps
\* calling read_next_chunk eventually receives is_end = true.
C27_ReadLoopTerminates == <>(IsRead(ret) /\ ret.is_end)


\* The call before on p was a read that returned and whose state was
\* written (or that had nothing to write), and the step is a read on p.
ReadAfterRead(p) ==
    /\ IsRead(ret)
    /\ ret.path = p
    /\ ret.save \in {"ok", "none"}
    /\ CallStep("read_next_chunk", p)

\* Once a read has returned is_end = true, the next read on the unchanged
\* source returns empty text with is_end = true.
EndIsStable ==
    \A p \in Paths :
        (ReadAfterRead(p) /\ ret.is_end)
            => ret'.kind = "returned" /\ ret'.text = << >> /\ ret'.is_end

\* A read that returned is_end = false is followed by a read that returns a
\* non-empty text.
EndIsComplete ==
    \A p \in Paths :
        (ReadAfterRead(p) /\ ~ret.is_end)
            => ret'.kind = "returned" /\ ret'.text # << >>

\* C28: once a read_next_chunk call has returned is_end = true, every later
\* call on the unchanged source returns empty text with is_end = true until
\* the offset is moved; and a call that returns is_end = false is followed by
\* a call that returns a non-empty text.
C28_EndStableAndComplete == [][EndIsStable /\ EndIsComplete]_vars


\* The first half of C28 alone.
EndStaysStable == [][EndIsStable]_vars

-----------------------------------------------------------------------------
(* Concurrent media generation of utils/media_generator.py.                *)
(*                                                                         *)
(* generate_media_concurrent submits one image task and one audio task per *)
(* scene to a thread pool and collects the futures in the main thread, the *)
(* image futures first, each group in the order of completion.  Here        *)
(*   loc  is the call: the scenes and max_workers,                          *)
(*   pc   is the position of the main thread and the state of each future,  *)
(*   run  is what each finished future holds,                               *)
(*   seen is the set of futures as_completed has yielded,                   *)
(*   ret  is the MediaGenerationResult.                                     *)

MaxScenes == 2

WorkerCounts == {1, 4}

\* An item of scenes_scripts is a dict, or something json.load can also put in
\* the list (a string, a number), on which item.get raises.
ItemKinds == {"dict", "not a dict"}

ImageTask(i) == [kind |-> "image", index |-> i]

AudioTask(i) == [kind |-> "audio", index |-> i]

ImageFutures(scenes) == {ImageTask(i) : i \in 1..Len(scenes)}

AudioFutures(scenes) == {AudioTask(i) : i \in 1..Len(scenes)}

\* Place of a task in the order of the executor.submit calls.
SubmitOrder(scenes, t) == IF t.kind = "image" THEN t.index ELSE Len(scenes) + t.index

NoError == "no error key"

\* File names are pairs of a stem and the scene index; the names the collector
\* gives to a task that raised have no index.
UnknownFile == <<"unknown_file">>

UnknownAudio == <<"unknown_audio">>

UnknownSrt == <<"unknown_srt">>

\* What future.result() gives: a returned dict, or the exception the task
\* raised.
TaskReturned(d) == [raised |-> FALSE, dict |-> d]

TaskRaised == [raised |-> TRUE, dict |-> None]

\* generate_single_image on a dict item: the three dicts it can return, on
\* success, on a falsy result or missing file, and on an exception of
\* generate_image.  On an item without .get the handler itself raises (it
\* formats scene_index, which is not bound), so the task raises.
GenerateSingleImage(item, i) ==
    IF item = "dict"
    THEN {TaskReturned([success |-> TRUE, file |-> <<"scene", i>>, error |-> NoError]),
          TaskReturned([success |-> FALSE, file |-> <<"scene", i>>, error |-> "generation failed"]),
          TaskReturned([success |-> FALSE, file |-> <<"scene", i>>, error |-> "str(e)"])}
    ELSE {TaskRaised}

\* generate_single_audio, in the same way.
GenerateSingleAudio(item, i) ==
    IF item = "dict"
    THEN {TaskReturned([success |-> TRUE, audio |-> <<"audio", i>>, srt |-> <<"srt", i>>,
                    error |-> NoError]),
          TaskReturned([success |-> FALSE, audio |-> <<"audio", i>>, srt |-> <<"srt", i>>,
                    error |-> "generation failed"]),
          TaskReturned([success |-> FALSE, audio |-> <<"audio", i>>, srt |-> <<"srt", i>>,
                    error |-> "str(e)"])}
    ELSE {TaskRaised}

\* MediaGenerationResult.__init__
NewResult ==
    [op |-> "generate_media_concurrent",
     generated_images |-> << >>, failed_images |-> << >>,
     generated_audio |-> << >>, generated_srt |-> << >>, failed_audio |-> << >>]

AddImageSuccess(result, filename) ==
    [result EXCEPT !.generated_images = Append(@, filename)]

AddImageFailure(result, filename, error) ==
    [result EXCEPT !.failed_images = Append(@, [file |-> filename, error |-> error])]

AddAudioSuccess(result, audio_file, srt_file) ==
    [result EXCEPT !.generated_audio = Append(@, audio_file),
                   !.generated_srt = Append(@, srt_file)]

AddAudioFailure(result, audio_file, srt_file, error) ==
    [result EXCEPT !.failed_audio =
                       Append(@, [audio |-> audio_file, srt |-> srt_file, error |-> error])]

\* task_result.get("error", "未知错误")
ErrorInfo(d) == IF d.error = NoError THEN "unknown error" ELSE d.error

\* The body of the loop over as_completed(image_futures)
CollectImageFuture(result, outcome) ==
    IF outcome.raised
    THEN AddImageFailure(result, UnknownFile, "str(e)")
    ELSE IF outcome.dict.success
         THEN AddImageSuccess(result, outcome.dict.file)
         ELSE AddImageFailure(result, outcome.dict.file, ErrorInfo(outcome.dict))

CollectAudioFuture_DropsRaised(result, outcome) ==
    IF outcome.raised
    THEN result
    ELSE IF outcome.dict.success
         THEN AddAudioSuccess(result, outcome.dict.audio, outcome.dict.srt)
         ELSE AddAudioFailure(result, outcome.dict.audio, outcome.dict.srt,
                              ErrorInfo(outcome.dict))

\* The body of the loop over as_completed(audio_futures)
CollectAudioFuture(result, outcome) ==
    IF outcome.raised
    THEN AddAudioFailure(result, UnknownAudio, UnknownSrt, "str(e)")
    ELSE IF outcome.dict.success
         THEN AddAudioSuccess(result, outcome.dict.audio, outcome.dict.srt)
         ELSE AddAudioFailure(result, outcome.dict.audio, outcome.dict.srt,
                              ErrorInfo(outcome.dict))

MediaTasks == {ImageTask(i) : i \in 1..MaxScenes + 1} \cup {AudioTask(i) : i \in 1..MaxScenes + 1}

AllFutures == ImageFutures(loc.scenes) \cup AudioFutures(loc.scenes)

Submitted == {t \in AllFutures : SubmitOrder(loc.scenes, t) <= pc.submitted}

\* executor.submit: the next task of the two list comprehensions joins the
\* work queue
Submit ==
    /\ pc.main = "running"
    /\ pc.submitted < 2 * Len(loc.scenes)
    /\ pc' = [pc EXCEPT !.submitted = @ + 1]
    /\ UNCHANGED <<file, cache, ret, run, loc, seen>>

\* A free worker thread takes the oldest task of the queue.
StartTask(t) ==
    /\ t \in Submitted
    /\ pc.future[t] = "PENDING"
    /\ \A u \in Submitted : pc.future[u] = "PENDING"
                               => SubmitOrder(loc.scenes, t) <= SubmitOrder(loc.scenes, u)
    /\ Cardinality({u \in AllFutures : pc.future[u] = "RUNNING"}) < loc.max_workers
    /\ pc' = [pc EXCEPT !.future[t] = "RUNNING"]
    /\ UNCHANGED <<file, cache, ret, run, loc, seen>>

\* The task returns or raises, and its future is finished.
FinishTask(t) ==
    /\ t \in AllFutures
    /\ pc.future[t] = "RUNNING"
    /\ \E outcome \in IF t.kind = "image"
                      THEN GenerateSingleImage(loc.scenes[t.index], t.index)
                      ELSE GenerateSingleAudio(loc.scenes[t.index], t.index) :
           run' = [run EXCEPT ![t] = outcome]
    /\ pc' = [pc EXCEPT !.future[t] = "FINISHED"]
    /\ UNCHANGED <<file, cache, ret, loc, seen>>

\* One turn of the first loop: as_completed yields a finished image future
\* that it has not yielded yet.
CollectImage(t) ==
    /\ pc.main = "running"
    /\ pc.submitted = 2 * Len(loc.scenes)
    /\ t \in ImageFutures(loc.scenes) \ seen
    /\ pc.future[t] = "FINISHED"
    /\ ret' = CollectImageFuture(ret, run[t])
    /\ seen' = seen \cup {t}
    /\ UNCHANGED <<file, cache, run, pc, loc>>

\* One turn of the second loop, entered when the first loop has ended.
CollectAudio(t) ==
    /\ pc.main = "running"
    /\ pc.submitted = 2 * Len(loc.scenes)
    /\ ImageFutures(loc.scenes) \subseteq seen
    /\ t \in AudioFutures(loc.scenes) \ seen
    /\ pc.future[t] = "FINISHED"
    /\ ret' = CollectAudioFuture(ret, run[t])
    /\ seen' = seen \cup {t}
    /\ UNCHANGED <<file, cache, run, pc, loc>>

\* The end of the with block and return result
ReturnResult ==
    /\ pc.main = "running"
    /\ pc.submitted = 2 * Len(loc.scenes)
    /\ AllFutures \subseteq seen
    /\ pc' = [pc EXCEPT !.main = "returned"]
    /\ UNCHANGED <<file, cache, ret, run, loc, seen>>

InitMedia ==
    /\ file = << >>
    /\ cache = << >>
    /\ loc \in {[scenes |-> s, max_workers |-> w] :
                   s \in UNION {[1..n -> ItemKinds] : n \in 0..MaxScenes},
                   w \in WorkerCounts}
    /\ pc = [main |-> "running", submitted |-> 0,
             future |-> [t \in MediaTasks |-> "PENDING"]]
    /\ run = [t \in MediaTasks |-> None]
    /\ seen = {}
    /\ ret = NewResult

NextMedia ==
    \/ Submit
    \/ \E t \in MediaTasks : StartTask(t)
    \/ \E t \in MediaTasks : FinishTask(t)
    \/ \E t \in MediaTasks : CollectImage(t)
    \/ \E t \in MediaTasks : CollectAudio(t)
    \/ ReturnResult

SpecMedia == InitMedia /\ [][NextMedia]_vars

ImageOutcomes == Len(ret.generated_images) + Len(ret.failed_images)

AudioOutcomes == Len(ret.generated_audio) + Len(ret.failed_audio)

\* The entries of the result that name the files of scene i.
ImageEntries(i) ==
    {k \in 1..Len(ret.generated_images) : ret.generated_images[k] = <<"scene", i>>}
        \cup {Len(ret.generated_images) + k : k \in {j \in 1..Len(ret.failed_images) :
                                                        ret.failed_images[j].file = <<"scene", i>>}}

AudioEntries(i) ==
    {k \in 1..Len(ret.generated_audio) : ret.generated_audio[k] = <<"audio", i>>}
        \cup {Len(ret.generated_audio) + k : k \in {j \in 1..Len(ret.failed_audio) :
                                                        ret.failed_audio[j].audio = <<"audio", i>>}}

\* C29: generate_media_concurrent records exactly one image outcome and
\* exactly one audio outcome per scene, for every completion order and
\* interleaving of the tasks, tasks that raise included: in the returned
\* result image successes + image failures = audio successes + audio failures
\* = number of scenes, a scene whose task did not raise has exactly one entry
\* of each kind, and generated_audio and generated_srt have equal length at
\* every moment.
C29_OneOutcomePerScene ==
    /\ Len(ret.generated_audio) = Len(ret.generated_srt)
    /\ ImageOutcomes = Cardinality(seen \cap ImageFutures(loc.scenes))
    /\ AudioOutcomes = Cardinality(seen \cap AudioFutures(loc.scenes))
    /\ pc.main = "returned"
           => /\ ImageOutcomes = Len(loc.scenes)
              /\ AudioOutcomes = Len(loc.scenes)
              /\ \A i \in 1..Len(loc.scenes) :
                     loc.scenes[i] = "dict"
                         => /\ Cardinality(ImageEntries(i)) = 1
                            /\ Cardinality(AudioEntries(i)) = 1

\* A returned result of two scenes, the first of which is not a dict: both of
\* its tasks raised, and the audio future of the second scene, which failed,
\* was collected before the one of the first.
C29_Witness ==
    /\ pc.main = "returned"
    /\ loc.scenes = <<"not a dict", "dict">>
    /\ Len(ret.failed_audio) = 2
    /\ ret.failed_audio[1].audio = <<"audio", 2>>
    /\ ret.failed_audio[2].audio = UnknownAudio
    /\ ret.generated_images = << <<"scene", 2>> >>
    /\ \E k \in 1..Len(ret.failed_images) : ret.failed_images[k].file = UnknownFile

-----------------------------------------------------------------------------
(* Merging the cue files of a scene: merge_srt_files of utils/tts.py.      *)
(*                                                                         *)
(* Times are whole milliseconds.  A cue file is missing, unreadable         *)
(* (pysrt.open raises), or the list of its cues, which may be empty.  Here  *)
(*   loc  is the call: srt_files,                                           *)
(*   pc   is the position inside the call,                                  *)
(*   ret  holds combined_srt, current_time_offset, index, the place of the  *)
(*        for loop and the value returned,                                  *)
(*   seen is the history of the loop: what each turn started from.          *)

MaxFiles == 3

\* The cue times of the inputs.
CueTimes == {0, 400, 1001, 1002}

\* The times the loop can reach: sums of cue times.
EvaluatedMs == {a + b + c + d + e : a \in CueTimes, b \in CueTimes, c \in CueTimes, d \in CueTimes, e \in CueTimes}

\* The values t of EvaluatedMs for which, with x = timedelta(milliseconds=t)
\* .total_seconds() in IEEE 754 doubles, int((x % 1) * 1000) is one less than
\* t % 1000: 1.001 % 1 is 0.0009999999999998899.
TruncatedMs == {1001, 1200, 1402, 1801, 2002, 2202, 2404, 2602, 2803, 2804, 3005, 3006, 3202, 3203, 3404, 3405, 3803, 3804, 4004, 4005, 4007, 4404, 4406, 5005, 5007, 5010}

\* The conversion without loss, as the comment of the code describes it.
ToSubRipTime_Exact(t) ==
    t

\* The conversion of a timedelta back to a SubRipTime: int(total_seconds())
\* for the seconds and int((total_seconds() % 1) * 1000) for the milliseconds.
ToSubRipTime(t) ==
    IF t \in TruncatedMs THEN t - 1 ELSE t

SrtItem(start, end, text) == [start |-> start, end |-> end, text |-> text]

MissingFile == [exists |-> FALSE, readable |-> FALSE, items |-> << >>]

UnreadableFile == [exists |-> TRUE, readable |-> FALSE, items |-> << >>]

CueFile(items) == [exists |-> TRUE, readable |-> TRUE, items |-> items]

\* The cue files of the inputs: a missing one, one that is not UTF-8, an
\* empty one, and four with cues; in the last the greatest end is not the end
\* of the last cue.
SrtInputs ==
    {MissingFile, UnreadableFile, CueFile(<< >>),
     CueFile(<<SrtItem(0, 1001, "a")>>),
     CueFile(<<SrtItem(0, 400, "b"), SrtItem(400, 1002, "c")>>),
     CueFile(<<SrtItem(1001, 1002, "d")>>),
     CueFile(<<SrtItem(0, 1002, "e"), SrtItem(400, 1001, "f")>>)}

GreatestOf(S) == IF S = {} THEN 0 ELSE CHOOSE x \in S : \A y \in S : y <= x

\* The for loop over the items of one file: the new items, numbered from
\* index, with start and end moved by current_time_offset and converted.
NewItems(items, current_time_offset, index) ==
    [j \in 1..Len(items) |->
        [index |-> index + j - 1,
         start |-> ToSubRipTime(current_time_offset + items[j].start),
         end |-> ToSubRipTime(current_time_offset + items[j].end),
         text |-> items[j].text]]

\* max_end_time after the loop over the items: the greatest new_end, a
\* timedelta, not below timedelta(0).
MaxEndTime(items, current_time_offset) ==
    GreatestOf({0} \cup {current_time_offset + items[j].end : j \in 1..Len(items)})

\* Whether the body of the loop over srt_files reaches the loop over the items.
Merges(srt_file) == srt_file.exists /\ srt_file.readable /\ srt_file.items # << >>

\* One turn of the loop over srt_files.
LoopBody(state, srt_file) ==
    IF ~Merges(srt_file)
    THEN [state EXCEPT !.next = @ + 1]
    ELSE [state EXCEPT
            !.combined_srt = @ \o NewItems(srt_file.items, state.current_time_offset,
                                           state.index),
            !.index = @ + Len(srt_file.items),
            !.current_time_offset = MaxEndTime(srt_file.items, state.current_time_offset),
            !.next = @ + 1]

\* if not srt_files: return
ReturnNoFiles ==
    /\ pc = "called"
    /\ loc.srt_files = << >>
    /\ ret' = [ret EXCEPT !.value = "no files to merge"]
    /\ pc' = "returned"
    /\ UNCHANGED <<file, cache, run, loc, seen>>

\* combined_srt = pysrt.SubRipFile(); current_time_offset = timedelta(0);
\* index = 1
BeginMerge ==
    /\ pc = "called"
    /\ loc.srt_files # << >>
    /\ ret' = [ret EXCEPT !.combined_srt = << >>, !.current_time_offset = 0,
                          !.index = 1, !.next = 1]
    /\ pc' = "loop"
    /\ UNCHANGED <<file, cache, run, loc, seen>>

\* The turn of the loop for srt_files[next].
MergeFile ==
    /\ pc = "loop"
    /\ ret.next <= Len(loc.srt_files)
    /\ ret' = LoopBody(ret, loc.srt_files[ret.next])
    /\ seen' = Append(seen, [merged |-> Merges(loc.srt_files[ret.next]),
                             current_time_offset |-> ret.current_time_offset,
                             index |-> ret.index,
                             count |-> Len(ret.combined_srt)])
    /\ UNCHANGED <<file, cache, run, pc, loc>>

\* After the loop: nothing to save, or combined_srt.save, which may raise.
SaveMerged ==
    /\ pc = "loop"
    /\ ret.next > Len(loc.srt_files)
    /\ \E saved \in BOOLEAN :
           ret' = [ret EXCEPT !.value = IF ret.combined_srt = << >>
                                        THEN "no valid content"
                                        ELSE IF saved THEN "merged" ELSE "save failed"]
    /\ pc' = "returned"
    /\ UNCHANGED <<file, cache, run, loc, seen>>

InitMerge ==
    /\ file = << >>
    /\ cache = << >>
    /\ run = << >>
    /\ seen = << >>
    /\ pc = "called"
    /\ loc \in {[srt_files |-> s] : s \in UNION {[1..n -> SrtInputs] : n \in 0..MaxFiles}}
    /\ ret = [op |-> "merge_srt_files", combined_srt |-> << >>, current_time_offset |-> 0,
              index |-> 1, next |-> 1, value |-> "none"]

NextMerge == ReturnNoFiles \/ BeginMerge \/ MergeFile \/ SaveMerged

SpecMerge == InitMerge /\ [][NextMerge]_vars

\* Every time the loop converts was evaluated for TruncatedMs.
TimesEvaluated ==
    \A k \in 1..Len(seen) :
        \A j \in 1..Len(loc.srt_files[k].items) :
            /\ seen[k].current_time_offset + loc.srt_files[k].items[j].start \in EvaluatedMs
            /\ seen[k].current_time_offset + loc.srt_files[k].items[j].end \in EvaluatedMs

\* The merged cues are numbered 1..N.
NumberedInOrder ==
    \A n \in 1..Len(ret.combined_srt) : ret.combined_srt[n].index = n

\* The cues of the k-th input file in the merged list.
MergedCue(k, j) == ret.combined_srt[seen[k].count + j]

\* The merged cues are the cues of the merged files, in input order.
InInputOrder ==
    \A k \in 1..Len(seen) :
        /\ seen[k].count = Len(ret.combined_srt) \/ seen[k].count < Len(ret.combined_srt)
        /\ seen[k].merged
               => \A j \in 1..Len(loc.srt_files[k].items) :
                      MergedCue(k, j).text = loc.srt_files[k].items[j].text
        /\ k < Len(seen)
               => seen[k + 1].count
                      = seen[k].count + (IF seen[k].merged THEN Len(loc.srt_files[k].items) ELSE 0)

\* The greatest end time reached by the merged cues of the files before the
\* k-th.
GreatestEndBefore(k) ==
    GreatestOf({ret.combined_srt[n].end : n \in 1..seen[k].count})

\* Each cue of a merged file is its input cue moved by the greatest end time
\* of the files merged before it.
ShiftedByGreatestEnd ==
    \A k \in 1..Len(seen) :
        seen[k].merged
            => \A j \in 1..Len(loc.srt_files[k].items) :
                   /\ MergedCue(k, j).start
                          = GreatestEndBefore(k) + loc.srt_files[k].items[j].start
                   /\ MergedCue(k, j).end
                          = GreatestEndBefore(k) + loc.srt_files[k].items[j].end

\* The shift does not decrease from file to file.
ShiftNonDecreasing ==
    \A k \in 1..Len(seen) :
        /\ k < Len(seen) => seen[k].current_time_offset <= seen[k + 1].current_time_offset
        /\ seen[k].current_time_offset <= ret.current_time_offset

\* No cue of a later file starts before the cues of the earlier files have
\* ended.
StartsAfterEarlierFiles ==
    \A k \in 1..Len(seen) :
        seen[k].merged
            => \A j \in 1..Len(loc.srt_files[k].items) :
                   GreatestEndBefore(k) <= MergedCue(k, j).start

\* A file that is missing, empty or unreadable leaves the shift, the
\* numbering and the merged cues as they were.
SkippedChangesNothing ==
    \A k \in 1..Len(seen) :
        ~seen[k].merged
            => LET after == IF k < Len(seen)
                            THEN seen[k + 1]
                            ELSE [merged |-> FALSE,
                                  current_time_offset |-> ret.current_time_offset,
                                  index |-> ret.index,
                                  count |-> Len(ret.combined_srt)]
               IN  /\ after.current_time_offset = seen[k].current_time_offset
                   /\ after.index = seen[k].index
                   /\ after.count = seen[k].count

\* C30: merge_srt_files numbers the merged cues 1..N in input order and shifts
\* the cues of each input file by the greatest end time reached by the cues
\* of the files merged before it, so the shift is non-decreasing from file to
\* file and no cue of a later file starts before the last cue of every
\* earlier file has ended; a missing, empty or unreadable input file is
\* skipped and changes neither the shift nor the numbering.
C30_MergedCuesShifted ==
    /\ NumberedInOrder
    /\ InInputOrder
    /\ ShiftedByGreatestEnd
    /\ ShiftNonDecreasing
    /\ StartsAfterEarlierFiles
    /\ SkippedChangesNothing

\* All of C30 but the amount of the shift.
MergedCuesOrdered ==
    /\ NumberedInOrder
    /\ InInputOrder
    /\ ShiftNonDecreasing
    /\ StartsAfterEarlierFiles
    /\ SkippedChangesNothing

=============================================================================
